---- MODULE Spec2Model ----
(***************************************************************************)
(* A model of the node_resolver resolution pipeline (bvanjoi/node_resolver).*)
(* resolve / _resolve and the plugin stages are modelled as a machine with  *)
(* an explicit call stack: one frame per activation of _resolve, of the     *)
(* fallback alias stage and of parse_file_to_value, one action per stage.   *)
(* Strings are TLA+ strings handled with Len, SubSeq and \o.               *)
(***************************************************************************)
EXTENDS Integers, Sequences, FiniteSets, TLC

(***************************************************************************)
(* String helpers (Rust str methods used by the stages).                   *)
(***************************************************************************)
CharAt(s, i) == SubSeq(s, i, i)

Drop(s, n) == SubSeq(s, n + 1, Len(s))

Take(s, n) == SubSeq(s, 1, n)

starts_with(s, p) == Len(p) <= Len(s) /\ SubSeq(s, 1, Len(p)) = p

ends_with(s, p) == Len(p) <= Len(s) /\ SubSeq(s, Len(s) - Len(p) + 1, Len(s)) = p

RECURSIVE FindFrom(_, _, _)
\* str::find: index (1-based) of the first occurrence of p in s at or after i, 0 when there is none
FindFrom(s, p, i) ==
    IF i + Len(p) - 1 > Len(s) THEN 0
    ELSE IF SubSeq(s, i, i + Len(p) - 1) = p THEN i
    ELSE FindFrom(s, p, i + 1)

find(s, p) == FindFrom(s, p, 1)

contains(s, p) == find(s, p) # 0

\* str::replacen(from, to, 1): only the first occurrence is replaced
replacen1(s, from, to) ==
    LET i == find(s, from)
    IN IF i = 0 \/ from = "" THEN s
       ELSE Take(s, i - 1) \o to \o Drop(s, i + Len(from) - 1)

RECURSIVE ReplaceAll(_, _, _)
ReplaceAll(s, from, to) ==
    LET i == find(s, from)
    IN IF i = 0 THEN s
       ELSE Take(s, i - 1) \o to \o ReplaceAll(Drop(s, i + Len(from) - 1), from, to)

(***************************************************************************)
(* Paths: absolute, '/'-separated, normalized strings.                     *)
(***************************************************************************)
RECURSIVE Split(_)
\* the segments of s between '/' characters
Split(s) ==
    LET i == find(s, "/")
    IN IF i = 0 THEN <<s>> ELSE <<Take(s, i - 1)>> \o Split(Drop(s, i))

RECURSIVE NormSegs(_, _)
\* drops '' and '.', lets '..' remove the segment before it
NormSegs(segs, acc) ==
    IF segs = <<>> THEN acc
    ELSE LET h == Head(segs)
         IN IF h = "" \/ h = "." THEN NormSegs(Tail(segs), acc)
            ELSE IF h = ".." THEN NormSegs(Tail(segs), IF acc = <<>> THEN acc ELSE SubSeq(acc, 1, Len(acc) - 1))
            ELSE NormSegs(Tail(segs), Append(acc, h))

RECURSIVE JoinSegs(_)
JoinSegs(segs) == IF segs = <<>> THEN "" ELSE "/" \o Head(segs) \o JoinSegs(Tail(segs))

normalize(p) ==
    LET segs == NormSegs(Split(p), <<>>)
    IN IF segs = <<>> THEN "/" ELSE JoinSegs(segs)

\* a join that appends an absolute right-hand side to the left
join_appends(dir, rel) == normalize(dir \o "/" \o rel)

\* Path::join followed by normalize: an absolute right-hand side replaces the left
join(dir, rel) == IF starts_with(rel, "/") THEN normalize(rel) ELSE normalize(dir \o "/" \o rel)

\* Path::parent: "" stands for None (the root has no parent)
parent(p) ==
    LET segs == NormSegs(Split(p), <<>>)
    IN IF segs = <<>> THEN ""
       ELSE IF Len(segs) = 1 THEN "/"
       ELSE JoinSegs(SubSeq(segs, 1, Len(segs) - 1))

\* Path::ends_with(name): the last component equals name
path_ends_with(p, name) ==
    LET segs == NormSegs(Split(p), <<>>)
    IN segs # <<>> /\ segs[Len(segs)] = name

(***************************************************************************)
(* PathKind classification (kind.rs).                                      *)
(***************************************************************************)
BUILT_IN_MODULE_SET ==
    { "_http_agent", "_http_client", "_http_common", "_http_incoming", "_http_outgoing",
      "_http_server", "_stream_duplex", "_stream_passthrough", "_stream_readable",
      "_stream_transform", "_stream_wrap", "_stream_writable", "_tls_common", "_tls_wrap",
      "assert", "assert/,strict", "async_hooks", "buffer", "child_process", "cluster",
      "console", "constants", "crypto", "dgram", "diagnostics_channel", "dns", "dns/promises",
      "domain", "events", "fs", "fs/promises", "http", "http2", "https", "inspector", "module",
      "net", "os", "path", "path/posix", "path/win32", "perf_hooks", "process", "punycode",
      "querystring", "readline", "repl", "stream", "stream/consumers", "stream/promises",
      "stream/web", "string_decoder", "sys", "timers", "timers/promises", "tls", "trace_events",
      "tty", "url", "util", "util/types", "v8", "vm", "wasi", "worker_threads", "zlib" }

Letters ==
    { "a", "b", "c", "d", "e", "f", "g", "h", "i", "j", "k", "l", "m", "n", "o", "p", "q", "r",
      "s", "t", "u", "v", "w", "x", "y", "z", "A", "B", "C", "D", "E", "F", "G", "H", "I", "J",
      "K", "L", "M", "N", "O", "P", "Q", "R", "S", "T", "U", "V", "W", "X", "Y", "Z" }

\* the two-character drive patterns "a:" .. "Z:"
ABSOLUTE_WIN_PATTERN_LENGTH_TWO == { l \o ":" : l \in Letters }

\* the three-character drive patterns "a:\" .. "Z:/"
ABSOLUTE_WIN_PATTERN_REST == { l \o ":\\" : l \in Letters } \cup { l \o ":/" : l \in Letters }

is_build_in_module(target) == target \in BUILT_IN_MODULE_SET

\* PMA.leftmost_find_iter(target).next(): the start of the leftmost occurrence of a
\* three-character drive pattern, 0 when there is none
leftmost_find(target) ==
    LET starts == { i \in 1..(Len(target) - 2) : SubSeq(target, i, i + 2) \in ABSOLUTE_WIN_PATTERN_REST }
    IN IF starts = {} THEN 0 ELSE CHOOSE i \in starts : \A j \in starts : i <= j

\* a classification that takes every '<letter>:' prefix for a drive
get_target_kind_drive_prefix(target) ==
    IF target = "" THEN "Empty"
    ELSE IF is_build_in_module(target) THEN "BuildInModule"
    ELSE IF starts_with(target, "#") THEN "Internal"
    ELSE IF starts_with(target, "/") THEN "AbsolutePosix"
    ELSE IF target = "." \/ starts_with(target, "./") \/ starts_with(target, "../") \/ target = ".."
         THEN "Relative"
    ELSE IF Len(target) >= 2 /\ Take(target, 2) \in ABSOLUTE_WIN_PATTERN_LENGTH_TWO THEN "AbsoluteWin"
    ELSE "Normal"

\* Resolver::get_target_kind
get_target_kind(target) ==
    IF target = "" THEN "Empty"
    ELSE IF is_build_in_module(target) THEN "BuildInModule"
    ELSE IF starts_with(target, "#") THEN "Internal"
    ELSE IF starts_with(target, "/") THEN "AbsolutePosix"
    ELSE IF target = "." \/ starts_with(target, "./") \/ starts_with(target, "../") \/ target = ".."
         THEN "Relative"
    ELSE IF Len(target) = 2 /\ target \in ABSOLUTE_WIN_PATTERN_LENGTH_TWO THEN "AbsoluteWin"
    ELSE IF leftmost_find(target) = 1 THEN "AbsoluteWin"
    ELSE "Normal"

(***************************************************************************)
(* Request parsing: target, query, fragment.                               *)
(***************************************************************************)
RECURSIVE ParseScan(_, _, _, _, _)
\* One left-to-right pass.  st is the scanner state; q and f are the start
\* positions of the query and of the fragment (0: none).  A '#' right after
\* a '/' (or first) belongs to the target; '?' moves the query start while
\* no fragment has begun; the first '#' in a name or query starts the
\* fragment, which takes the rest of the specifier.
ParseScan(s, i, st, q, f) ==
    IF i > Len(s) THEN [q |-> q, f |-> f]
    ELSE LET c == CharAt(s, i)
         IN IF st = "Fragment" THEN [q |-> q, f |-> f]
            ELSE IF c = "#" THEN
                    IF st = "Start" THEN ParseScan(s, i + 1, "Request", q, f)
                    ELSE ParseScan(s, i + 1, "Fragment", q, i)
            ELSE IF c = "?" THEN ParseScan(s, i + 1, "Query", i, f)
            ELSE IF c = "/" /\ st = "Request" THEN ParseScan(s, i + 1, "Start", q, f)
            ELSE ParseScan(s, i + 1, IF st = "Start" THEN "Request" ELSE st, q, f)

\* a split at the last '#' of the specifier and the last '?' before it
parse_by_last_hash(s) ==
    LET hs == { i \in 1..Len(s) : CharAt(s, i) = "#" }
        f == IF hs = {} THEN 0 ELSE CHOOSE i \in hs : \A j \in hs : j <= i
        qs == { i \in 1..(IF f = 0 THEN Len(s) ELSE f - 1) : CharAt(s, i) = "?" }
        q == IF qs = {} THEN 0 ELSE CHOOSE i \in qs : \A j \in qs : j <= i
        tEnd == IF q # 0 THEN q - 1 ELSE IF f # 0 THEN f - 1 ELSE Len(s)
        qEnd == IF f # 0 THEN f - 1 ELSE Len(s)
    IN [target |-> Take(s, tEnd),
        query |-> IF q = 0 THEN "" ELSE SubSeq(s, q, qEnd),
        fragment |-> IF f = 0 THEN "" ELSE SubSeq(s, f, Len(s))]

\* Resolver::parse: the Request of a specifier
parse(s) ==
    LET r == ParseScan(s, 1, "Start", 0, 0)
        tEnd == IF r.q # 0 THEN r.q - 1 ELSE IF r.f # 0 THEN r.f - 1 ELSE Len(s)
        qEnd == IF r.f # 0 THEN r.f - 1 ELSE Len(s)
    IN [target |-> Take(s, tEnd),
        query |-> IF r.q = 0 THEN "" ELSE SubSeq(s, r.q, qEnd),
        fragment |-> IF r.f = 0 THEN "" ELSE SubSeq(s, r.f, Len(s))]

\* Info::new / Info::from: the focus of a resolution
Info(path, request) ==
    [path |-> path, target |-> request.target, query |-> request.query, fragment |-> request.fragment]

with_target(info, t) == [info EXCEPT !.target = t]

\* Info::get_path / to_resolved_path: the referring directory joined with the target
get_path(info) == IF info.target = "" THEN normalize(info.path) ELSE join(info.path, info.target)

kind(info) == get_target_kind(info.target)

(***************************************************************************)
(* The filesystem snapshot: a fixture tree in the style of tests/fixtures.  *)
(***************************************************************************)
MODULE_DIR == "node_modules"

Files ==
    { "/r/package.json", "/r/x.js", "/r/x.ts", "/r/e.js", "/r/d.js", "/r/ig.js",
      "/r/a/index.js", "/r/b/index.js", "/r/lib/m.js", "/r/link.js", "/r/n3.js", "/r/n126.js",
      "/r/bare", "/r/bare.js", "/r/only", "/r/linked/index.js",
      "/r/no.js", "/r/no#fragment/#/#.js", "/r/node_modules/ignore-a/index.js", "/r/c/index.js",
      "/r/tsconfig.json", "/r/base.json", "/r/ts2.json", "/r/ts3.json", "/r/ts4.json",
      "/r/ts5.json", "/r/ts6.json", "/r/ts7.json", "/r/ts8.json", "/r/ts9.json",
      "/r/bad/package.json", "/r/bad/x.js",
      "/r/web/package.json", "/r/web/x.js", "/r/web/y.js", "/r/web/no.js", "/r/web/self.js",
      "/r/web/loop.js", "/r/web/tobad.js",
      "/r/pd/package.json/keep", "/r/pd/x.js", "/r/bt/package.json", "/r/bt/x.js",
      "/r/bs/package.json", "/r/bs/y.js", "/r/bs/node_modules/selfm/index.js",
      "/r/bn/package.json", "/r/bn/y.js", "/r/bn/node_modules/selfm/index.js",
      "/r/node_modules/m.js", "/r/node_modules/os.js",
      "/r/sc/package.json", "/r/sc/x.js", "/r/node_modules/ef/node_modules/@in/p/index.js",
      "/r/node_modules/ef/package.json", "/r/node_modules/ef/x.js", "/r/node_modules/ef/ig.js",
      "/r/node_modules/ef/private.js", "/r/node_modules/ef/lib/main.js",
      "/r/node_modules/plain/package.json", "/r/node_modules/plain/main.js",
      "/r/node_modules/plain/sub/index.js",
      "/r/node_modules/@s/n/package.json", "/r/node_modules/@s/n/x.js" }

RECURSIVE Ancestors(_)
Ancestors(p) == IF parent(p) = "" THEN {} ELSE {parent(p)} \cup Ancestors(parent(p))

\* every directory on the way to a file, and one empty directory
Dirs == UNION { Ancestors(f) : f \in Files } \cup { "/r/empty" }

\* symbolic links: link path -> canonical path; /r/link.js is a link to a file,
\* /r/linked a link to the directory /r/a
Symlinks == [ l \in { "/r/link.js", "/r/linked" } |-> IF l = "/r/link.js" THEN "/r/x.js" ELSE "/r/a" ]

\* an entry that takes every path for a regular file
is_file_always(p) == TRUE

\* EntryStat::stat with Entry::is_file / is_dir / exists
is_file(p) == p \in Files

is_dir(p) == p \in Dirs

exists(p) == is_file(p) \/ is_dir(p)

\* an entry that takes no path for a link
symlink_none(p) == ""

\* Entry::symlink: the canonical path of a link, "" when p is not a link
symlink(p) == IF p \in DOMAIN Symlinks THEN Symlinks[p] ELSE ""

\* the last component of a path
file_name(p) == LET segs == NormSegs(Split(p), <<>>) IN IF segs = <<>> THEN "" ELSE segs[Len(segs)]

RECURSIVE realpath(_)
\* the canonical path: the nearest entry on the way to the root that is a link
\* is replaced by its canonical path, the components below it are kept
realpath(p) ==
    IF parent(p) = "" THEN p
    ELSE IF symlink(p) # "" THEN symlink(p)
    ELSE join(realpath(parent(p)), file_name(p))

(***************************************************************************)
(* Description files.  A PkgJSON is a record: bad (the text is not JSON),   *)
(* name ("" when absent), main ("" when absent), has_exports with the       *)
(* exports entries in JSON order, and the browser object in JSON order.     *)
(* An exports entry maps a subpath key to an array of items; an item is a   *)
(* list of conditional branches [cond, target] of which the first one       *)
(* whose condition holds is taken.                                          *)
(***************************************************************************)
Str(t) == << [cond |-> "default", target |-> t] >>

\* serde_json::Value: null, a string, an object, a boolean, a number
JNull == [t |-> "null", s |-> "", f |-> <<>>]

JStr(x) == [t |-> "str", s |-> x, f |-> <<>>]

JObj(fn) == [t |-> "obj", s |-> "", f |-> fn]

JBool(x) == [t |-> "bool", s |-> IF x THEN "true" ELSE "false", f |-> <<>>]

JNum(x) == [t |-> "num", s |-> x, f |-> <<>>]

Target(t) == [ignored |-> FALSE, to |-> t]

Ignored == [ignored |-> TRUE, to |-> ""]

\* PkgJSON.side_effects: None, Bool(b) or Array(a)
NoSideEffects == [t |-> "None", b |-> FALSE, a |-> <<>>]

SideEffectsBool(x) == [t |-> "Bool", b |-> x, a |-> <<>>]

SideEffectsArray(x) == [t |-> "Array", b |-> FALSE, a |-> x]

NoPkg == [bad |-> FALSE, name |-> "", main |-> "", module |-> "", has_exports |-> FALSE, exports |-> <<>>, browser |-> <<>>, alias_fields |-> <<>>,
          side_effects |-> NoSideEffects]

BadPkg == [NoPkg EXCEPT !.bad = TRUE]

EfExports ==
    << [key |-> ".", items |-> << Str("./x.js") >>],
       [key |-> "./dist/*", items |-> << Str("./lib/*") >>],
       [key |-> "./one/*", items |-> << Str("./x.js") >>],
       [key |-> "./gone", items |-> << Str("./missing.js") >>],
       [key |-> "./multi", items |-> << Str("./missing.js"), Str("plain"), Str("./x.js") >>],
       [key |-> "./cond", items |-> << << [cond |-> "webpack", target |-> "./lib/main.js"],
                                          [cond |-> "default", target |-> "./x.js"] >> >>],
       [key |-> "./cyc", items |-> << Str("./e"), Str("./x.js") >>],
       [key |-> "./ign", items |-> << Str("./ig.js") >>],
       [key |-> "./d", items |-> << Str("./lib"), Str("./x.js") >>],
       [key |-> "./dir/", items |-> << Str("./lib/") >>] >>

DescriptionFiles ==
    [ f \in { "/r/package.json", "/r/bad/package.json", "/r/web/package.json",
              "/r/bs/package.json", "/r/bn/package.json", "/r/bt/package.json", "/r/sc/package.json",
              "/r/node_modules/ef/package.json", "/r/node_modules/plain/package.json",
              "/r/node_modules/@s/n/package.json" } |->
        CASE f = "/r/package.json" ->
                [NoPkg EXCEPT !.name = "app", !.has_exports = TRUE,
                              !.exports = << [key |-> "./pub", items |-> << Str("./x.js") >>] >>]
          [] f = "/r/bad/package.json" -> BadPkg
          [] f = "/r/web/package.json" ->
                [NoPkg EXCEPT !.name = "web",
                              !.browser = << <<"./x.js", JStr("./y.js")>>,
                                             <<"./self.js", JStr("./self.js")>>,
                                             <<"./no.js", JBool(FALSE)>>,
                                             <<"./loop.js", JStr("./e")>>,
                                             <<"./tobad.js", JStr("../bad/x.js")>>,
                                             <<"./y.js", JNum("1")>>,
                                             <<"mod", JBool(FALSE)>>,
                                             <<"./z.js", JNull>> >>]
          [] f = "/r/bs/package.json" ->
                [NoPkg EXCEPT !.name = "bs",
                              !.browser = << <<"selfm", JStr("selfm")>>,
                                             <<"./y", JStr("./y")>>,
                                             <<"./y.js", JBool(FALSE)>> >>]
          [] f = "/r/sc/package.json" ->
                [NoPkg EXCEPT !.name = "@sc", !.has_exports = TRUE,
                              !.exports = << [key |-> ".", items |-> << Str("./x.js") >>] >>]
          [] f = "/r/bt/package.json" ->
                [NoPkg EXCEPT !.name = "bt", !.browser = << <<"./x.js", JBool(TRUE)>> >>]
          [] f = "/r/bn/package.json" ->
                [NoPkg EXCEPT !.name = "bn",
                              !.browser = << <<"./y.js", JBool(FALSE)>> >>]
          [] f = "/r/node_modules/ef/package.json" ->
                [NoPkg EXCEPT !.name = "ef", !.has_exports = TRUE, !.exports = EfExports,
                              !.side_effects = SideEffectsBool(FALSE)]
          [] f = "/r/node_modules/plain/package.json" ->
                [NoPkg EXCEPT !.name = "plain", !.main = "./main.js"]
          [] f = "/r/node_modules/@s/n/package.json" ->
                [NoPkg EXCEPT !.name = "@s/n", !.has_exports = TRUE,
                              !.exports = << [key |-> ".", items |-> << Str("./x.js") >>] >>,
                              !.side_effects = SideEffectsArray(<< "*.css" >>)] ]

\* Error values and RResult
Err(k, m) == [kind |-> k, msg |-> m]

NoErr == Err("", "")

RECURSIVE alias_fields_of(_)
\* PkgJSON::parse, lines 43-54: the alias map of a `browser` object, in its order;
\* a boolean becomes Ignored, a string a Target, any other value is left out
alias_fields_of(browser) ==
    IF browser = <<>> THEN <<>>
    ELSE LET key == Head(browser)[1]
             value == Head(browser)[2]
             rest == alias_fields_of(Tail(browser))
         IN IF value.t = "bool" THEN << <<key, Ignored>> >> \o rest
            ELSE IF value.t = "str" THEN << <<key, Target(value.s)>> >> \o rest
            ELSE rest

\* line 47, assert!(!b): every boolean of the `browser` object is false
browser_asserts(browser) ==
    \A i \in DOMAIN browser : browser[i][2].t = "bool" => browser[i][2].s = "false"

\* the panic of a failed assertion
Panic == Err("Panic", "assertion failed: !b")

\* PkgJSON::parse on a text that is JSON: the descriptor with its alias map, or a panic
PkgJSON_parse(json) ==
    [panic |-> ~browser_asserts(json.browser),
     json |-> [json EXCEPT !.alias_fields = alias_fields_of(json.browser)]]

\* the io::Error of reading a path that is a directory
IsADirectory(path) == Err("Io", "Is a directory: " \o path)

\* fs.read_description_file: the parsed descriptor with the directory it lies in,
\* Io when the file is missing or cannot be read (the message of a missing file is
\* its path), UnexpectedJson (with the file's path) when it is not JSON
\* the description file at pkg_path was parsed
parsed_description(pkg_path, parsed) ==
    IF parsed.panic
        THEN [ok |-> FALSE, err |-> Panic, dir_path |-> "", json |-> NoPkg]
    ELSE [ok |-> TRUE, err |-> NoErr, dir_path |-> parent(pkg_path), json |-> parsed.json]

\* the description file at pkg_path holds the text `file`
read_description(pkg_path, file) ==
    IF file.bad
        THEN [ok |-> FALSE, err |-> Err("UnexpectedJson", pkg_path), dir_path |-> "", json |-> NoPkg]
    ELSE parsed_description(pkg_path, PkgJSON_parse(file))

read_description_file(pkg_path) ==
    IF is_dir(pkg_path)
        THEN [ok |-> FALSE, err |-> IsADirectory(pkg_path), dir_path |-> "", json |-> NoPkg]
    ELSE IF pkg_path \notin DOMAIN DescriptionFiles \/ ~is_file(pkg_path)
        THEN [ok |-> FALSE, err |-> Err("Io", pkg_path), dir_path |-> "", json |-> NoPkg]
    ELSE read_description(pkg_path, DescriptionFiles[pkg_path])

NoPkgInfo == [ok |-> TRUE, err |-> NoErr, dir_path |-> "", json |-> NoPkg]

RECURSIVE pkg_info(_, _)
RECURSIVE pkg_info_skips_bad(_, _)
\* a lookup that goes on to the parent when the description file is not valid
pkg_info_skips_bad(path, description_file) ==
    LET is_pkg_suffix == path_ends_with(path, description_file)
        pkg_path == IF is_pkg_suffix THEN path ELSE join(path, description_file)
        r == read_description_file(pkg_path)
    IN IF (is_dir(path) \/ is_pkg_suffix) /\ r.ok THEN r
       ELSE IF parent(path) # "" THEN pkg_info_skips_bad(parent(path), description_file)
       ELSE NoPkgInfo

\* Entry::pkg_info for the entry of `path`: the nearest descriptor on the way to the root;
\* dir_path = "" stands for None
\* lines 97-112: what the lookup does with r, the description file read at the
\* level of `path` when that level is probed
pkg_info_match(path, description_file, probes, r) ==
    IF probes /\ r.ok THEN r
    ELSE IF probes /\ r.err.kind \in {"UnexpectedJson", "UnexpectedValue"} THEN r
    ELSE IF probes /\ r.err = Panic THEN r
    ELSE IF parent(path) # "" THEN pkg_info(parent(path), description_file)
    ELSE NoPkgInfo

\* lines 83-91: the probed level and its description file
pkg_info_at(path, description_file, is_pkg_suffix) ==
    pkg_info_match(path, description_file, is_dir(path) \/ is_pkg_suffix,
                   read_description_file(IF is_pkg_suffix THEN path ELSE join(path, description_file)))

pkg_info(path, description_file) ==
    pkg_info_at(path, description_file, path_ends_with(path, description_file))

(***************************************************************************)
(* tsconfig files: JSON values are tagged records; an object is a function *)
(* from its keys to values.                                                *)
(***************************************************************************)
RECURSIVE merge(_, _)
\* merge(a, b): the value of a after the call; b fills what a lacks
merge(a, b) ==
    IF a.t = "obj" /\ b.t = "obj"
        THEN JObj([k \in DOMAIN a.f \cup DOMAIN b.f |->
                    IF k \in DOMAIN b.f
                        THEN merge(IF k \in DOMAIN a.f THEN a.f[k] ELSE JNull, b.f[k])
                        ELSE a.f[k]])
    ELSE IF a = JNull THEN b
    ELSE a

TsConfigFiles ==
    [ f \in { "/r/tsconfig.json", "/r/base.json", "/r/ts2.json", "/r/ts3.json", "/r/ts4.json",
              "/r/ts5.json", "/r/ts6.json", "/r/ts7.json", "/r/ts8.json", "/r/ts9.json" } |->
        CASE f = "/r/tsconfig.json" ->
                JObj([extends |-> JStr("./base.json"),
                      compilerOptions |-> JObj([baseUrl |-> JStr(".")])])
          [] f = "/r/base.json" ->
                JObj([compilerOptions |-> JObj([baseUrl |-> JStr("./src"), strict |-> JStr("true")])])
          [] f = "/r/ts2.json" -> JObj([extends |-> JStr("./e")])
          [] f = "/r/ts3.json" -> JObj([extends |-> JStr("./ig.js")])
          [] f = "/r/ts4.json" -> JObj([extends |-> JStr("./bad/x.js")])
          [] f = "/r/ts5.json" ->
                JObj([extends |-> JStr("./base.json"),
                      compilerOptions |-> JObj([baseUrl |-> JNull, jsx |-> JStr("react")])])
          [] f = "/r/ts6.json" ->
                JObj([extends |-> JStr("./tsconfig.json"),
                      compilerOptions |-> JObj([jsx |-> JStr("react")]),
                      files |-> JStr("a.ts")])
          [] f = "/r/ts7.json" -> JObj([extends |-> JStr("./ts7.json")])
          [] f = "/r/ts8.json" -> JObj([extends |-> JStr("./ts9.json")])
          [] f = "/r/ts9.json" -> JObj([extends |-> JStr("./ts8.json")]) ]

\* fs.read_tsconfig: the parsed JSON of a tsconfig file
read_tsconfig(location) == IF location \in DOMAIN TsConfigFiles THEN TsConfigFiles[location] ELSE JObj(<<>>)

\* json["extends"] when it is a string, "" otherwise
extends_of(json) ==
    IF json.t = "obj" /\ "extends" \in DOMAIN json.f /\ json.f["extends"].t = "str"
        THEN json.f["extends"].s ELSE ""

(***************************************************************************)
(* Options and Resolver::new.                                              *)
(***************************************************************************)
CWD == "/r"

DefaultOptions ==
    [ extensions |-> <<".js", ".json", ".node">>,
      enforce_extension |-> "Auto",
      alias |-> <<>>,
      fallback |-> <<>>,
      prefer_relative |-> FALSE,
      symlinks |-> TRUE,
      description_file |-> "package.json",
      main_files |-> <<"index">>,
      main_fields |-> <<"main">>,
      browser_field |-> FALSE,
      condition_names |-> {"node"},
      tsconfig |-> "",
      fully_specified |-> FALSE,
      resolve_to_context |-> FALSE ]

\* the extension with a leading '.', which an empty extension does not get
with_dot(ext) == IF ext = "" \/ starts_with(ext, ".") THEN ext ELSE "." \o ext

\* a constructor that leaves enforce_extension as it was configured
new_keeps_auto(options) ==
    [options EXCEPT
        !.tsconfig =
            IF options.tsconfig = "" THEN ""
            ELSE IF starts_with(options.tsconfig, "/") THEN options.tsconfig
            ELSE join(CWD, IF starts_with(options.tsconfig, "./") THEN Drop(options.tsconfig, 2)
                           ELSE options.tsconfig)]

\* a constructor that brings every extension to the form with a leading '.'
new_normalizes(options) ==
    [options EXCEPT
        !.extensions = [i \in DOMAIN options.extensions |-> with_dot(options.extensions[i])],
        !.enforce_extension =
            IF options.enforce_extension = "Auto"
                THEN IF \E i \in DOMAIN options.extensions : options.extensions[i] = ""
                        THEN "Enabled" ELSE "Disabled"
                ELSE options.enforce_extension,
        !.tsconfig =
            IF options.tsconfig = "" THEN ""
            ELSE IF starts_with(options.tsconfig, "/") THEN options.tsconfig
            ELSE join(CWD, IF starts_with(options.tsconfig, "./") THEN Drop(options.tsconfig, 2)
                           ELSE options.tsconfig)]

\* Resolver::new: the effective enforce_extension and the absolute tsconfig path
new(options) ==
    [options EXCEPT
        !.enforce_extension =
            IF options.enforce_extension = "Auto"
                THEN IF \E i \in DOMAIN options.extensions : options.extensions[i] = ""
                        THEN "Enabled" ELSE "Disabled"
                ELSE options.enforce_extension,
        !.tsconfig =
            IF options.tsconfig = "" THEN ""
            ELSE IF starts_with(options.tsconfig, "/") THEN options.tsconfig
            ELSE join(CWD, IF starts_with(options.tsconfig, "./") THEN Drop(options.tsconfig, 2)
                           ELSE options.tsconfig)]

(***************************************************************************)
(* State: Resolving(Info) | Success(Resource | Ignored) | Failed(Info) |    *)
(* Error(err).                                                             *)
(***************************************************************************)
NoInfo == [path |-> "", target |-> "", query |-> "", fragment |-> ""]

Resolving(info) == [tag |-> "Resolving", info |-> info, ignored |-> FALSE, err |-> NoErr]

Success(info) == [tag |-> "Success", info |-> info, ignored |-> FALSE, err |-> NoErr]

SuccessIgnored == [tag |-> "Success", info |-> NoInfo, ignored |-> TRUE, err |-> NoErr]

Failed(info) == [tag |-> "Failed", info |-> info, ignored |-> FALSE, err |-> NoErr]

Error(e) == [tag |-> "Error", info |-> NoInfo, ignored |-> FALSE, err |-> e]

NoState == [tag |-> "None", info |-> NoInfo, ignored |-> FALSE, err |-> NoErr]

\* State::is_finished
is_finished(st) == st.tag \in {"Success", "Error"}

\* the Info of a resolved file: the path is the file, the target is used up
Resolved(info, file) == [info EXCEPT !.path = file, !.target = ""]

(***************************************************************************)
(* File and directory resolution (the path kinds of the main dispatch).     *)
(***************************************************************************)
RECURSIVE FirstFile(_)
\* the first path of the list that is a regular file, "" when none is
FirstFile(paths) ==
    IF paths = <<>> THEN ""
    ELSE IF is_file(Head(paths)) THEN Head(paths)
    ELSE FirstFile(Tail(paths))

append_ext_for_path(path, ext) == path \o ext

\* the probes with the configured extensions in reverse order
FileProbes_reversed(path, opt) ==
    (IF opt.enforce_extension = "Disabled" THEN <<path>> ELSE <<>>)
        \o [i \in 1..Len(opt.extensions) |->
               append_ext_for_path(path, opt.extensions[Len(opt.extensions) + 1 - i])]

\* the probes of resolve-as-file in order: the bare path unless an extension
\* is enforced, then path + ext for every configured extension
FileProbes(path, opt) ==
    (IF opt.enforce_extension = "Disabled" THEN <<path>> ELSE <<>>)
        \o [i \in 1..Len(opt.extensions) |-> append_ext_for_path(path, opt.extensions[i])]

resolve_as_file(info, opt) ==
    LET f == FirstFile(FileProbes(get_path(info), opt))
    IN IF ends_with(info.target, "/") \/ f = "" THEN Resolving(info)
       ELSE Success(Resolved(info, f))

\* resolve-to-context: the request must name a directory, which is the result
resolve_as_context(info, opt, rtc) ==
    IF ~rtc THEN Resolving(info)
    ELSE IF is_dir(get_path(info)) THEN Success(Resolved(info, get_path(info)))
    ELSE Failed(info)

\* fully specified: the request must name the file exactly
resolve_as_fully_specified(info, opt) ==
    IF ~opt.fully_specified THEN Resolving(info)
    ELSE IF is_file(get_path(info)) THEN Success(Resolved(info, get_path(info)))
    ELSE Failed(info)

\* the string value of a main field of a descriptor, "" when it has none
MainField(json, name) == IF name = "main" THEN json.main ELSE IF name = "module" THEN json.module ELSE ""

RECURSIVE FirstNonEmpty(_)
FirstNonEmpty(xs) ==
    IF xs = <<>> THEN "" ELSE IF Head(xs) # "" THEN Head(xs) ELSE FirstNonEmpty(Tail(xs))

\* a main file of directory d: d/name probed as a file, for each main_files name in order
MainFileOf(d, opt) ==
    FirstNonEmpty([i \in 1..Len(opt.main_files) |-> FirstFile(FileProbes(join(d, opt.main_files[i]), opt))])

\* what a main field value v of the descriptor in d resolves to: a file, or a directory's main file
MainFieldTarget(d, v, opt) ==
    IF v = "" THEN ""
    ELSE LET f == FirstFile(FileProbes(join(d, v), opt))
         IN IF f # "" THEN f
            ELSE IF is_dir(join(d, v)) THEN MainFileOf(join(d, v), opt)
            ELSE ""

resolve_as_dir(info, opt) ==
    LET d == get_path(info)
        r == read_description_file(join(d, opt.description_file))
        byField == FirstNonEmpty([i \in 1..Len(opt.main_fields) |->
                       MainFieldTarget(d, MainField(r.json, opt.main_fields[i]), opt)])
        f == IF r.ok /\ byField # "" THEN byField ELSE MainFileOf(d, opt)
    IN IF ~is_dir(d) THEN Failed(info)
       ELSE IF ~r.ok /\ r.err.kind # "Io" THEN Error(r.err)
       ELSE IF f # "" THEN Success(Resolved(info, f))
       ELSE Failed(info)

\* the main dispatch of _resolve for Relative / AbsolutePosix / AbsoluteWin requests
then(st, next) == IF st.tag = "Resolving" THEN next ELSE st

resolve_path_kinds(info, opt, rtc) ==
    then(then(then(resolve_as_context(info, opt, rtc),
                   resolve_as_fully_specified(info, opt)),
              resolve_as_file(info, opt)),
         resolve_as_dir(info, opt))

(***************************************************************************)
(* The exports field: subpath lookup and the plugin's request rewriting.    *)
(***************************************************************************)
\* the part of a pattern key before its '*', for a key ending in '/' the key itself
KeyPrefix(key) == IF contains(key, "*") THEN Take(key, find(key, "*") - 1) ELSE key

KeySuffix(key) == IF contains(key, "*") THEN Drop(key, find(key, "*")) ELSE ""

KeyMatches(key, req) ==
    IF contains(key, "*")
        THEN /\ starts_with(req, KeyPrefix(key))
             /\ ends_with(req, KeySuffix(key))
             /\ Len(req) >= Len(KeyPrefix(key)) + Len(KeySuffix(key))
    ELSE IF ends_with(key, "/") THEN starts_with(req, key)
    ELSE req = key

\* the text a wildcard or a trailing-slash key leaves over
Captured(key, req) == SubSeq(req, Len(KeyPrefix(key)) + 1, Len(req) - Len(KeySuffix(key)))

IsLiteralKey(key) == ~contains(key, "*") /\ ~ends_with(key, "/")

\* the entry that answers req: a literal key before any pattern, the longest
\* literal prefix among patterns, the earliest entry among equals; 0 when none
MatchEntry(exports, req) ==
    LET M == { i \in DOMAIN exports : KeyMatches(exports[i].key, req) }
        Better(i, j) ==
            \/ IsLiteralKey(exports[i].key) /\ ~IsLiteralKey(exports[j].key)
            \/ /\ IsLiteralKey(exports[i].key) = IsLiteralKey(exports[j].key)
               /\ \/ Len(KeyPrefix(exports[i].key)) > Len(KeyPrefix(exports[j].key))
                  \/ Len(KeyPrefix(exports[i].key)) = Len(KeyPrefix(exports[j].key)) /\ i < j
    IN IF M = {} THEN 0 ELSE CHOOSE i \in M : \A j \in M \ {i} : Better(i, j)

RECURSIVE FirstBranch(_, _)
\* condition selection: the target of the first branch whose condition holds, "" when none does
FirstBranch(item, conds) ==
    IF item = <<>> THEN ""
    ELSE IF Head(item).cond = "default" \/ Head(item).cond \in conds THEN Head(item).target
    ELSE FirstBranch(Tail(item), conds)

\* a matched leaf with the captured text put in
Substitute(key, t, req) ==
    IF contains(key, "*") THEN ReplaceAll(t, "*", Captured(key, req))
    ELSE IF ends_with(key, "/") THEN t \o Captured(key, req)
    ELSE t

RECURSIVE Compact(_)
Compact(xs) ==
    IF xs = <<>> THEN <<>>
    ELSE IF Head(xs) = "" THEN Compact(Tail(xs)) ELSE <<Head(xs)>> \o Compact(Tail(xs))

\* ExportsField::field_process: the ordered candidate list for a remaining target
field_process(exports, req, conds) ==
    LET e == MatchEntry(exports, req)
    IN IF ends_with(req, "/")
           THEN [ok |-> FALSE, err |-> Err("UnexpectedValue", "Only requesting file allowed"), list |-> <<>>]
       ELSE IF e = 0 THEN [ok |-> TRUE, err |-> NoErr, list |-> <<>>]
       ELSE [ok |-> TRUE, err |-> NoErr,
             list |-> Compact([i \in 1..Len(exports[e].items) |->
                         LET t == FirstBranch(exports[e].items[i], conds)
                         IN IF t = "" THEN "" ELSE Substitute(exports[e].key, t, req)])]

\* ExportsField::check_target: a candidate must stay inside the package
check_target(t) == starts_with(t, "./") /\ ~contains(t, "/../") /\ ~ends_with(t, "/..")

is_in_module(pkg) == contains(pkg.dir_path, MODULE_DIR)

is_resolve_self(pkg, info) == pkg.json.name # "" /\ starts_with(info.target, pkg.json.name)

\* the panic of line 49: target.find('/').unwrap() on None
UnwrapNone == Err("Panic", "called Option::unwrap() on a None value")

NotExported(target) == Err("UnexpectedValue", "Package path " \o target \o " is not exported")

\* ExportsFieldPlugin::apply up to its candidate loop (lines 34-89).  what is
\* "pass" (Resolving(info)), "failed", "error", "panic" (unwrap of None) or "list"
exports_lookup(pkg, info, opt) ==
    LET target == info.target
        scoped == starts_with(target, "@")
        chars == IF scoped THEN Drop(target, find(target, "/")) ELSE target
        idx == find(chars, "/")
        hasDot == exists(join(info.path, target)) \/ pkg.json.name = target
        sub == IF idx # 0 THEN "." \o Drop(chars, idx - 1) ELSE "."
        remaining == IF info.query # "" \/ info.fragment # ""
                        THEN (IF sub = "." THEN "./" ELSE sub) \o info.query \o info.fragment
                        ELSE sub
        fp == field_process(pkg.json.exports, remaining, opt.condition_names)
        out(w, l, e) == [what |-> w, list |-> l, err |-> e]
    IN IF kind(info) # "Normal" THEN out("pass", <<>>, NoErr)
       ELSE IF ~is_in_module(pkg) /\ ~is_resolve_self(pkg, info) THEN out("pass", <<>>, NoErr)
       ELSE IF ~pkg.json.has_exports THEN out("pass", <<>>, NoErr)
       ELSE IF scoped /\ find(target, "/") = 0 THEN out("panic", <<>>, UnwrapNone)
       ELSE IF idx = 0 /\ ~hasDot THEN out("failed", <<>>, NoErr)
       ELSE IF ~fp.ok THEN out("error", <<>>, fp.err)
       ELSE out("list", fp.list, NoErr)

\* the package name a bare request begins with: 'name' or '@scope/name'
module_name(target) ==
    LET segs == Split(target)
    IN IF starts_with(target, "@") /\ Len(segs) >= 2 THEN segs[1] \o "/" \o segs[2] ELSE segs[1]

(***************************************************************************)
(* The machine.                                                            *)
(***************************************************************************)
VARIABLES
    options,    \* the Options value Resolver::new was called with
    opt,        \* the resolver's options, as Resolver::new left them
    dir,        \* resolve's `path` argument
    request,    \* resolve's `request` argument
    phase,      \* where resolve stands: start, tsconfig, main, fallback, symlink, done, aborted
    stack,      \* the activations of _resolve, of the fallback alias stage and of parse_file_to_value
    ret,        \* the State a finished activation hands to its caller, NoState when none is pending
    tsret,      \* the RResult the last finished parse_file_to_value returned
    depth,      \* context.depth
    rtc,        \* context.resolve_to_context
    final,      \* resolve's `result` State before it is mapped to the return value
    result,     \* what resolve returned
    expo,       \* history: the exports stage of the request's own _resolve activation
    ignoredHit, \* history: where a matching Ignored entry was reached
    raised,     \* history: the first hard error raised, and whether in a sub-resolution
    prior,      \* history: what the call before this one returned, NoResult when this is the first
    side,       \* what load_side_effects returned, when it was the last call on the resolver
    disk,       \* the filesystem content that can change between builds
    entries,    \* cache.entries: normalized path -> the once-initialised slots of its Entry
    calls,      \* per thread: the resolve call it runs on the shared cache, and where it stands
    hist,       \* history of the shared cache: writes, clears, calls since the last clear
    arena,      \* every Entry that Entry::new made, in the order of creation, with its parent handle
    table,      \* cache.entries as handles: normalized path -> position of its Entry in the arena
    loads,      \* per thread: the activations of load_entry it runs, and the handle it got
    gen         \* history: how often cache.entries was cleared

vars == <<options, opt, dir, request, phase, stack, ret, tsret, depth, rtc, final, result, expo, ignoredHit,
          raised, prior, side, disk, entries, calls, hist, arena, table, loads, gen>>

\* the state of the shared cache and of the threads that use it
cachevars == <<disk, entries, calls, hist>>

\* the entries of the cache as shared handles, and the threads that load them
loadvars == <<arena, table, loads, gen>>

\* the state of a single resolve call followed through the whole pipeline
pipevars == <<options, opt, dir, request, phase, stack, ret, tsret, depth, rtc, final, result, expo, ignoredHit,
              raised, prior, side>>

\* a limit that lets one more activation in
DepthLimit_one_more == 127 + 1

\* Depth limit of Context (lib.rs: context.depth.cmp(127).is_ge())
DepthLimit == 127

NoTs == [tag |-> "None", err |-> NoErr, json |-> JNull]

TsOk(json) == [tag |-> "Ok", err |-> NoErr, json |-> json]

TsErr(e) == [tag |-> "Err", err |-> e, json |-> JNull]

NoResult == [tag |-> "None", ignored |-> FALSE, path |-> "", query |-> "", fragment |-> "", err |-> NoErr]

Frame(fn, stage, info) ==
    [fn |-> fn, stage |-> stage, info |-> info, st |-> Resolving(info), i |-> 0, list |-> <<>>,
     pkg |-> "", self |-> FALSE, mdir |-> "", json |-> JNull, prev_rtc |-> FALSE, unfinished |-> {}, by |-> 0,
     d0 |-> 0]

Top == stack[Len(stack)]

Below == SubSeq(stack, 1, Len(stack) - 1)

\* the top activation replaced by f
SetTop(f) == Append(Below, f)

\* the top activation becomes f and calls _resolve(info)
Call(f, info) == Append(Append(Below, f), Frame("_resolve", "enter", info))

AtStage(fn, stage) == stack # <<>> /\ Top.fn = fn /\ Top.stage = stage

\* the descriptor and directory of the package whose description file lies in d
PkgAt(d) == read_description_file(join(d, opt.description_file))

\* history of the first hard error
Raise(e) ==
    IF raised.err = NoErr
        THEN [err |-> e, nested |-> Len(stack) >= 2 \/ phase = "tsconfig"]
        ELSE raised

NoRaise == [err |-> NoErr, nested |-> FALSE]

NoExpo == [ran |-> FALSE, target |-> "", anyFile |-> FALSE, anyIgnored |-> FALSE]

NoHit == [by |-> "", inExtends |-> FALSE]

\* the request's own activation: the bottom _resolve of the main phase
IsRequestFrame == phase = "main" /\ Len(stack) = 1

(***************************************************************************)
(* resolve (lib.rs 136-187), first part: parse, Info, Context, entry.       *)
(***************************************************************************)
resolve ==
    /\ phase = "start"
    /\ depth' = 0
    /\ rtc' = opt.resolve_to_context
    /\ IF opt.tsconfig # ""
          THEN /\ stack' = << Frame("parse_file_to_value", "load", [NoInfo EXCEPT !.path = opt.tsconfig]) >>
               /\ phase' = "tsconfig"
          ELSE /\ stack' = << Frame("_resolve", "enter", Info(dir, parse(request))) >>
               /\ phase' = "main"
    /\ UNCHANGED <<opt, dir, request, ret, tsret, final, result, expo, ignoredHit, raised>>
    /\ UNCHANGED <<options, prior, side, cachevars, loadvars>>

(***************************************************************************)
(* _resolve (lib.rs 189-238): depth accounting on entry and on exit.        *)
(***************************************************************************)
_resolve_enter ==
    /\ AtStage("_resolve", "enter")
    /\ depth' = depth + 1
    /\ IF depth' >= DepthLimit
          THEN /\ stack' = Below
               /\ ret' = Error(Err("Overflow", ""))
               /\ raised' = Raise(Err("Overflow", ""))
          ELSE /\ stack' = SetTop([Top EXCEPT !.stage = "parse", !.d0 = depth])
               /\ UNCHANGED <<ret, raised>>
    /\ UNCHANGED <<opt, dir, request, phase, tsret, rtc, final, result, expo, ignoredHit>>
    /\ UNCHANGED <<options, prior, side, cachevars, loadvars>>

_resolve_leave ==
    /\ AtStage("_resolve", "leave")
    /\ depth' = depth - 1
    /\ stack' = Below
    /\ ret' = Top.st
    /\ UNCHANGED <<opt, dir, request, phase, tsret, rtc, final, result, expo, ignoredHit, raised>>
    /\ UNCHANGED <<options, prior, side, cachevars, loadvars>>

\* ParsePlugin: the target is split again when no query or fragment was split off yet
ParsePlugin ==
    /\ AtStage("_resolve", "parse")
    /\ LET info == Top.info
           again == IF info.query = "" /\ info.fragment = ""
                       THEN Info(info.path, parse(info.target)) ELSE info
       IN stack' = SetTop([Top EXCEPT !.stage = "alias", !.info = again, !.st = Resolving(again)])
    /\ UNCHANGED <<opt, dir, request, phase, ret, tsret, depth, rtc, final, result, expo, ignoredHit, raised>>
    /\ UNCHANGED <<options, prior, side, cachevars, loadvars>>

(***************************************************************************)
(* AliasPlugin::apply (plugin/alias.rs 8-39).  The entries it walks are     *)
(* resolver.options.alias, in insertion order.                             *)
(***************************************************************************)
\* a stage that takes every key the target begins with for a match
alias_matches_prefix(target, from) == starts_with(target, from)

\* a stage that takes no entry for a match
alias_matches_never(target, from) == FALSE

\* lines 11-16: the entry's key is the target or a leading part of it up to a '/'
alias_matches(target, from) == target = from \/ starts_with(target, from \o "/")

\* no entry is skipped
alias_skips_never(target, to) == FALSE

\* every entry with a replacement is skipped
alias_skips_all(target, to) == TRUE

\* the guard of line 18: an entry whose replacement the target already begins with is skipped
alias_skips(target, to) == starts_with(target, to)

\* a matching entry that is not skipped: it ends the stage (Ignored) or starts a sub-resolution
alias_acts(target, entry) ==
    alias_matches(target, entry[1]) /\ (entry[2].ignored \/ ~alias_skips(target, entry[2].to))

\* the for loop: the first entry at or after position i that acts, 0 when the loop runs out
alias_next(target, alias, i) ==
    LET acting == { e \in i..Len(alias) : alias_acts(target, alias[e]) }
    IN IF acting = {} THEN 0 ELSE CHOOSE e \in acting : \A e2 \in acting : e <= e2

\* line 22: the rewritten target
alias_rewrite(target, from, to) == replacen1(target, from, to)

\* the sub-resolution's state is never returned
alias_returns_never(state) == FALSE

\* line 28: whether the sub-resolution's state is returned
alias_returns(state) == is_finished(state)

AliasPlugin ==
    /\ stack # <<>>
    /\ Top.stage = "alias"
    /\ Top.fn \in {"_resolve", "fallback"}
    /\ LET f == Top
           target == f.info.target
           alias == opt.alias
           back == ret # NoState
           j == alias_next(target, alias, f.i + 1)
           seen == IF back /\ ret.tag \in {"Failed", "Resolving"}
                      THEN f.unfinished \cup {f.i} ELSE f.unfinished
           finish(st, by) ==
               IF f.fn = "_resolve"
                  THEN /\ stack' = SetTop([f EXCEPT !.stage = "prefer", !.st = st, !.unfinished = seen, !.by = by])
                       /\ ret' = NoState
                  ELSE /\ stack' = Below
                       /\ ret' = st
       IN IF f.st.tag # "Resolving"
             THEN finish(f.st, 0) /\ UNCHANGED ignoredHit
          ELSE IF back /\ alias_returns(ret)
             THEN finish(ret, f.i) /\ UNCHANGED ignoredHit
          ELSE IF j = 0
             THEN finish(Resolving(f.info), 0) /\ UNCHANGED ignoredHit
          ELSE IF alias[j][2].ignored
             THEN /\ finish(SuccessIgnored, j)
                  /\ ignoredHit' = IF ignoredHit.by = ""
                                      THEN [by |-> "alias", inExtends |-> phase = "tsconfig"]
                                      ELSE ignoredHit
          ELSE /\ stack' = Call([f EXCEPT !.i = j, !.unfinished = seen],
                                with_target(f.info, alias_rewrite(target, alias[j][1], alias[j][2].to)))
               /\ ret' = NoState
               /\ UNCHANGED ignoredHit
    /\ UNCHANGED <<opt, dir, request, phase, tsret, depth, rtc, final, result, expo, raised>>
    /\ UNCHANGED <<options, prior, side, cachevars, loadvars>>

(***************************************************************************)
(* PreferRelativePlugin: a bare request is first tried as './target'.       *)
(***************************************************************************)
PreferRelativePlugin ==
    /\ AtStage("_resolve", "prefer")
    /\ LET f == Top
           next(st) == /\ stack' = SetTop([f EXCEPT !.stage = "pkg", !.st = st, !.i = 0])
                       /\ ret' = NoState
       IN IF f.st.tag # "Resolving" THEN next(f.st)
          ELSE IF ret # NoState THEN next(IF ret.tag = "Success" THEN ret ELSE f.st)
          ELSE IF opt.prefer_relative /\ kind(f.info) = "Normal"
             THEN /\ stack' = Call(f, with_target(f.info, "./" \o f.info.target))
                  /\ ret' = NoState
          ELSE next(f.st)
    /\ UNCHANGED <<opt, dir, request, phase, tsret, depth, rtc, final, result, expo, ignoredHit, raised>>
    /\ UNCHANGED <<options, prior, side, cachevars, loadvars>>

(***************************************************************************)
(* lib.rs 205-221: the package info of the resolved path, ImportsField.     *)
(* No descriptor of the snapshot has an `imports` field, so the imports     *)
(* stage hands its input on.                                               *)
(***************************************************************************)
ImportsFieldPlugin(pkg, info) == Resolving(info)

\* a package-info stage that runs whatever the state it is handed
load_pkg_info_always ==
    /\ AtStage("_resolve", "pkg")
    /\ LET f == Top
           pi == pkg_info(get_path(f.info), opt.description_file)
       IN IF ~pi.ok /\ pi.err = Panic
             THEN /\ phase' = "aborted"
                  /\ result' = [NoResult EXCEPT !.tag = "Panic", !.err = Panic]
                  /\ stack' = <<>>
                  /\ UNCHANGED raised
          ELSE IF ~pi.ok
             THEN /\ stack' = SetTop([f EXCEPT !.stage = "browser", !.st = Error(pi.err)])
                  /\ raised' = Raise(pi.err)
                  /\ UNCHANGED <<phase, result>>
          ELSE /\ stack' = SetTop([f EXCEPT !.stage = "browser", !.pkg = pi.dir_path,
                                            !.st = ImportsFieldPlugin(pi, f.info)])
               /\ UNCHANGED <<phase, result, raised>>
    /\ UNCHANGED <<opt, dir, request, ret, tsret, depth, rtc, final, expo, ignoredHit>>
    /\ UNCHANGED <<options, prior, side, cachevars, loadvars>>

\* lib.rs 205-221: the package info of the request's path and the imports stage
load_pkg_info ==
    /\ AtStage("_resolve", "pkg")
    /\ LET f == Top
           pi == pkg_info(get_path(f.info), opt.description_file)
       IN IF f.st.tag # "Resolving"
             THEN stack' = SetTop([f EXCEPT !.stage = "browser"]) /\ UNCHANGED <<phase, result, raised>>
          ELSE IF ~pi.ok /\ pi.err = Panic
             THEN /\ phase' = "aborted"
                  /\ result' = [NoResult EXCEPT !.tag = "Panic", !.err = Panic]
                  /\ stack' = <<>>
                  /\ UNCHANGED raised
          ELSE IF ~pi.ok
             THEN /\ stack' = SetTop([f EXCEPT !.stage = "browser", !.st = Error(pi.err)])
                  /\ raised' = Raise(pi.err)
                  /\ UNCHANGED <<phase, result>>
          ELSE /\ stack' = SetTop([f EXCEPT !.stage = "browser", !.pkg = pi.dir_path,
                                            !.st = IF pi.dir_path = "" THEN f.st
                                                   ELSE ImportsFieldPlugin(pi, f.info)])
               /\ UNCHANGED <<phase, result, raised>>
    /\ UNCHANGED <<opt, dir, request, ret, tsret, depth, rtc, final, expo, ignoredHit>>
    /\ UNCHANGED <<options, prior, side, cachevars, loadvars>>

(***************************************************************************)
(* BrowserFieldPlugin::apply (plugin/browser_field.rs 35-83).               *)
(***************************************************************************)
request_target_is_module_and_equal_alias_key(alias_key, info) == info.target = alias_key

request_path_is_equal_alias_key_path(alias_path, info, extensions) ==
    \/ alias_path = get_path(info)
    \/ \E i \in DOMAIN extensions : alias_path = append_ext_for_path(get_path(info), extensions[i])

should_deal_alias(pkg, alias_key, info) ==
    IF kind(info) = "Normal"
        THEN request_target_is_module_and_equal_alias_key(alias_key, info)
        ELSE request_path_is_equal_alias_key_path(join(pkg.dir_path, alias_key), info, opt.extensions)

RECURSIVE browser_next(_, _, _)
\* the first entry at or after position i that the request matches, 0 when the loop runs out
browser_next(pkg, info, i) ==
    IF i > Len(pkg.json.alias_fields) THEN 0
    ELSE IF should_deal_alias(pkg, pkg.json.alias_fields[i][1], info) THEN i
    ELSE browser_next(pkg, info, i + 1)

\* line 62: a mapping that points at itself
browser_points_itself(alias_key, converted) == alias_key = converted

\* line 74: whether the sub-resolution's state is returned
browser_returns(state) == is_finished(state)

BrowserFieldPlugin ==
    /\ AtStage("_resolve", "browser")
    /\ LET f == Top
           pkg == PkgAt(f.pkg)
           back == ret # NoState
           j == browser_next(pkg, f.info, f.i + 1)
           e == pkg.json.alias_fields[j]
           next(st) == /\ stack' = SetTop([f EXCEPT !.stage = "main", !.st = st, !.i = 0])
                       /\ ret' = NoState
       IN IF f.st.tag # "Resolving" \/ f.pkg = "" \/ ~opt.browser_field
             THEN next(f.st) /\ UNCHANGED ignoredHit
          ELSE IF back /\ browser_returns(ret)
             THEN next(ret) /\ UNCHANGED ignoredHit
          ELSE IF j = 0
             THEN next(Resolving(f.info)) /\ UNCHANGED ignoredHit
          ELSE IF e[2].ignored
             THEN /\ next(SuccessIgnored)
                  /\ ignoredHit' = IF ignoredHit.by = ""
                                      THEN [by |-> "browser", inExtends |-> phase = "tsconfig"]
                                      ELSE ignoredHit
          ELSE IF browser_points_itself(e[1], e[2].to)
             THEN next(Resolving(f.info)) /\ UNCHANGED ignoredHit
          ELSE /\ stack' = Call([f EXCEPT !.i = j], Info(pkg.dir_path, with_target(f.info, e[2].to)))
               /\ ret' = NoState
               /\ UNCHANGED ignoredHit
    /\ UNCHANGED <<opt, dir, request, phase, tsret, depth, rtc, final, result, expo, raised>>
    /\ UNCHANGED <<options, prior, side, cachevars, loadvars>>

(***************************************************************************)
(* lib.rs 222-234: the main dispatch.                                      *)
(***************************************************************************)
is_path_kind(k) == k \in {"AbsolutePosix", "AbsoluteWin", "Relative"}

\* a dispatch that returns the name of a builtin module unchanged as a resource
main_dispatch_builtin ==
    /\ AtStage("_resolve", "main")
    /\ LET f == Top
           st == resolve_path_kinds(f.info, opt, rtc)
       IN IF f.st.tag # "Resolving"
             THEN stack' = SetTop([f EXCEPT !.stage = "leave"]) /\ UNCHANGED raised
          ELSE IF is_path_kind(kind(f.info))
             THEN /\ stack' = SetTop([f EXCEPT !.stage = "leave", !.st = st])
                  /\ raised' = IF st.tag = "Error" THEN Raise(st.err) ELSE raised
          ELSE IF kind(f.info) = "BuildInModule"
             THEN stack' = SetTop([f EXCEPT !.stage = "leave", !.st = Success(f.info)]) /\ UNCHANGED raised
          ELSE stack' = SetTop([f EXCEPT !.stage = "modules"]) /\ UNCHANGED raised
    /\ UNCHANGED <<opt, dir, request, phase, ret, tsret, depth, rtc, final, result, expo, ignoredHit>>
    /\ UNCHANGED <<options, prior, side, cachevars, loadvars>>

main_dispatch ==
    /\ AtStage("_resolve", "main")
    /\ LET f == Top
           st == resolve_path_kinds(f.info, opt, rtc)
       IN IF f.st.tag # "Resolving"
             THEN stack' = SetTop([f EXCEPT !.stage = "leave"]) /\ UNCHANGED raised
          ELSE IF is_path_kind(kind(f.info))
             THEN /\ stack' = SetTop([f EXCEPT !.stage = "leave", !.st = st])
                  /\ raised' = IF st.tag = "Error" THEN Raise(st.err) ELSE raised
          ELSE stack' = SetTop([f EXCEPT !.stage = "modules"]) /\ UNCHANGED raised
    /\ UNCHANGED <<opt, dir, request, phase, ret, tsret, depth, rtc, final, result, expo, ignoredHit>>
    /\ UNCHANGED <<options, prior, side, cachevars, loadvars>>

(***************************************************************************)
(* resolve_as_modules: self-reference first, then the node_modules          *)
(* directories from the referring directory upward.                        *)
(***************************************************************************)
resolve_as_modules ==
    /\ AtStage("_resolve", "modules")
    /\ LET f == Top
           pi == pkg_info(f.info.path, opt.description_file)
       IN IF ~pi.ok
             THEN /\ stack' = SetTop([f EXCEPT !.stage = "leave", !.st = Error(pi.err)])
                  /\ raised' = Raise(pi.err)
          ELSE IF pi.dir_path # "" /\ is_resolve_self(pi, f.info)
             THEN /\ stack' = SetTop([f EXCEPT !.stage = "exports", !.pkg = pi.dir_path, !.self = TRUE,
                                               !.mdir = normalize(f.info.path), !.i = 0, !.list = <<>>])
                  /\ UNCHANGED raised
          ELSE /\ stack' = SetTop([f EXCEPT !.stage = "walk", !.mdir = normalize(f.info.path)])
               /\ UNCHANGED raised
    /\ UNCHANGED <<opt, dir, request, phase, ret, tsret, depth, rtc, final, result, expo, ignoredHit>>
    /\ UNCHANGED <<options, prior, side, cachevars, loadvars>>

\* one level of the walk: the package directory under mdir/node_modules, or the parent level
walk_node_modules ==
    /\ AtStage("_resolve", "walk")
    /\ LET f == Top
           nm == join(f.mdir, MODULE_DIR)
           pkgdir == join(nm, module_name(f.info.target))
           pi == pkg_info(pkgdir, opt.description_file)
       IN IF f.st.tag # "Resolving"
             THEN stack' = SetTop([f EXCEPT !.stage = "leave"]) /\ UNCHANGED raised
          ELSE IF ~is_dir(nm)
             THEN /\ stack' = SetTop(IF parent(f.mdir) = ""
                                        THEN [f EXCEPT !.stage = "leave", !.st = Failed(f.info)]
                                        ELSE [f EXCEPT !.mdir = parent(f.mdir)])
                  /\ UNCHANGED raised
          ELSE IF ~is_dir(pkgdir)
             THEN stack' = SetTop([f EXCEPT !.stage = "inpkg"]) /\ UNCHANGED raised
          ELSE IF ~pi.ok
             THEN /\ stack' = SetTop([f EXCEPT !.stage = "leave", !.st = Error(pi.err)])
                  /\ raised' = Raise(pi.err)
          ELSE IF pi.dir_path = ""
             THEN stack' = SetTop([f EXCEPT !.stage = "inpkg"]) /\ UNCHANGED raised
          ELSE /\ stack' = SetTop([f EXCEPT !.stage = "exports", !.pkg = pi.dir_path, !.self = FALSE,
                                            !.i = 0, !.list = <<>>])
               /\ UNCHANGED raised
    /\ UNCHANGED <<opt, dir, request, phase, ret, tsret, depth, rtc, final, result, expo, ignoredHit>>
    /\ UNCHANGED <<options, prior, side, cachevars, loadvars>>

\* file / directory resolution of mdir/node_modules/target, else the parent level
resolve_in_package ==
    /\ AtStage("_resolve", "inpkg")
    /\ LET f == Top
           minfo == Info(join(f.mdir, MODULE_DIR), f.info)
           st == then(resolve_as_file(minfo, opt), resolve_as_dir(minfo, opt))
       IN IF f.st.tag # "Resolving"
             THEN stack' = SetTop([f EXCEPT !.stage = "leave"]) /\ UNCHANGED raised
          ELSE IF is_finished(st)
             THEN /\ stack' = SetTop([f EXCEPT !.stage = "leave", !.st = st])
                  /\ raised' = IF st.tag = "Error" THEN Raise(st.err) ELSE raised
          ELSE /\ stack' = SetTop(IF parent(f.mdir) = ""
                                     THEN [f EXCEPT !.stage = "leave", !.st = Failed(f.info)]
                                     ELSE [f EXCEPT !.stage = "walk", !.mdir = parent(f.mdir)])
               /\ UNCHANGED raised
    /\ UNCHANGED <<opt, dir, request, phase, ret, tsret, depth, rtc, final, result, expo, ignoredHit>>
    /\ UNCHANGED <<options, prior, side, cachevars, loadvars>>

(***************************************************************************)
(* ExportsFieldPlugin::apply (plugin/exports_field.rs 33-120).              *)
(***************************************************************************)
RECURSIVE exports_next(_, _)
\* a loop that hands every candidate to _resolve, whatever check_target says
exports_next_unchecked(list, i) == IF i > Len(list) THEN 0 ELSE i

\* lines 92-97: the first candidate at or after position i that check_target lets through
exports_next(list, i) ==
    IF i > Len(list) THEN 0
    ELSE IF check_target(parse(list[i]).target) THEN i
    ELSE exports_next(list, i + 1)

\* a candidate that came back Ignored is passed over
exports_candidate_drops_ignored(state) ==
    IF state.tag = "Success" /\ ~state.ignored /\ is_file(get_path(state.info)) THEN "file"
    ELSE "continue"

\* lines 98-113: what a candidate's sub-resolution makes of the stage:
\* "ignored", "file" (the stage succeeds with it) or "continue"
exports_candidate(state) ==
    IF state.tag # "Success" THEN "continue"
    ELSE IF state.ignored THEN "ignored"
    ELSE IF is_file(get_path(state.info)) THEN "file"
    ELSE "continue"

\* the loop ran out and the stage goes on with the request as it came
exports_exhausted_falls_back(info) == Resolving(info)

\* lines 116-118: the loop ran out
exports_exhausted(info) == Error(NotExported(info.target))

ExportsFieldPlugin ==
    /\ AtStage("_resolve", "exports")
    /\ LET f == Top
           pkg == PkgAt(f.pkg)
           minfo == IF f.self THEN f.info ELSE Info(join(f.mdir, MODULE_DIR), f.info)
           back == ret # NoState
           lk == exports_lookup(pkg, minfo, opt)
           list == IF back THEN f.list ELSE lk.list
           j == exports_next(list, f.i + 1)
           what == IF back THEN exports_candidate(ret) ELSE "continue"
           after == IF f.self THEN "walk" ELSE "inpkg"
           next(st) == /\ stack' = SetTop([f EXCEPT !.stage = after, !.st = st, !.i = 0, !.list = <<>>])
                       /\ ret' = NoState
                       /\ UNCHANGED <<phase, result>>
           note(file, ign, ran) ==
               expo' = IF IsRequestFrame
                          THEN [ran |-> expo.ran \/ ran, target |-> minfo.target,
                                anyFile |-> expo.anyFile \/ file, anyIgnored |-> expo.anyIgnored \/ ign]
                          ELSE expo
       IN IF f.st.tag # "Resolving"
             THEN next(f.st) /\ UNCHANGED <<expo, raised>>
          ELSE IF ~back /\ lk.what = "pass"
             THEN next(f.st) /\ UNCHANGED <<expo, raised>>
          ELSE IF ~back /\ lk.what = "failed"
             THEN next(Failed(minfo)) /\ UNCHANGED <<expo, raised>>
          ELSE IF ~back /\ lk.what = "error"
             THEN next(Error(lk.err)) /\ raised' = Raise(lk.err) /\ UNCHANGED expo
          ELSE IF ~back /\ lk.what = "panic"
             THEN /\ phase' = "aborted"
                  /\ result' = [NoResult EXCEPT !.tag = "Panic", !.err = lk.err]
                  /\ stack' = <<>>
                  /\ ret' = NoState
                  /\ UNCHANGED <<expo, raised>>
          ELSE IF what = "ignored"
             THEN next(SuccessIgnored) /\ note(FALSE, TRUE, TRUE) /\ UNCHANGED raised
          ELSE IF what = "file"
             THEN next(Success(ret.info)) /\ note(TRUE, FALSE, TRUE) /\ UNCHANGED raised
          ELSE IF j = 0
             THEN /\ next(exports_exhausted(minfo))
                  /\ raised' = Raise(NotExported(minfo.target))
                  /\ note(FALSE, FALSE, TRUE)
          ELSE /\ stack' = Call([f EXCEPT !.i = j, !.list = list], Info(pkg.dir_path, parse(list[j])))
               /\ ret' = NoState
               /\ note(FALSE, FALSE, TRUE)
               /\ UNCHANGED <<phase, result, raised>>
    /\ UNCHANGED <<opt, dir, request, tsret, depth, rtc, final, ignoredHit>>
    /\ UNCHANGED <<options, prior, side, cachevars, loadvars>>

(***************************************************************************)
(* parse_file_to_value (tsconfig.rs 64-110): load a tsconfig, resolve its   *)
(* `extends` with _resolve, parse the extended file, merge.                 *)
(***************************************************************************)
\* line 94: what the state of the `extends` resolution leads to:
\* "parse" the resolved file, "ignored" (an error) or "keep" the json as it is
extends_outcome(state) ==
    IF state.tag # "Success" THEN "keep"
    ELSE IF state.ignored THEN "ignored"
    ELSE "parse"

\* the nested activations of parse_file_to_value that the call stack has room
\* for; no counter of the program bounds them
MaxParse == 4

\* the activations of parse_file_to_value on the stack
ParseFrames(frames) == { i \in DOMAIN frames : frames[i].fn = "parse_file_to_value" }

\* the process ends when the call stack is used up
StackExhausted == Err("Abort", "stack overflow")

parse_file_to_value ==
    /\ stack # <<>>
    /\ Top.fn = "parse_file_to_value"
    /\ IF Top.stage = "extends" /\ extends_outcome(ret) = "parse"
          /\ Cardinality(ParseFrames(stack)) >= MaxParse
       THEN /\ phase' = "aborted"
            /\ result' = [NoResult EXCEPT !.tag = "Abort", !.err = StackExhausted]
            /\ stack' = <<>>
            /\ UNCHANGED <<ret, tsret, rtc, raised>>
       ELSE
       /\ UNCHANGED <<phase, result>>
       /\ LET f == Top
              location == f.info.path
              json == read_tsconfig(location)
              s == extends_of(json)
              leave(r) == /\ stack' = Below
                          /\ tsret' = r
                          /\ ret' = NoState
          IN IF f.stage = "load"
                THEN IF ~is_file(location)
                        THEN /\ leave(TsErr(Err("CantFindTsConfig", location)))
                             /\ raised' = Raise(Err("CantFindTsConfig", location))
                             /\ UNCHANGED rtc
                     ELSE IF s # ""
                        THEN /\ stack' = Call([f EXCEPT !.stage = "extends", !.json = json, !.prev_rtc = rtc],
                                              Info(parent(location), parse(s)))
                             /\ rtc' = FALSE
                             /\ UNCHANGED <<ret, tsret, raised>>
                     ELSE leave(TsOk(json)) /\ UNCHANGED <<rtc, raised>>
             ELSE IF f.stage = "extends"
                THEN /\ rtc' = IF f.prev_rtc THEN TRUE ELSE rtc
                     /\ IF extends_outcome(ret) = "parse"
                           THEN /\ stack' = Append(SetTop([f EXCEPT !.stage = "merge"]),
                                                   Frame("parse_file_to_value", "load",
                                                         [NoInfo EXCEPT !.path = get_path(ret.info)]))
                                /\ ret' = NoState
                                /\ UNCHANGED <<tsret, raised>>
                        ELSE IF extends_outcome(ret) = "ignored"
                           THEN /\ leave(TsErr(Err("UnexpectedValue", extends_of(f.json) \o " had been ignored in " \o location)))
                                /\ raised' = Raise(Err("UnexpectedValue", extends_of(f.json) \o " had been ignored in " \o location))
                        ELSE leave(TsOk(f.json)) /\ UNCHANGED raised
             ELSE /\ leave(IF tsret.tag = "Err" THEN tsret ELSE TsOk(merge(f.json, tsret.json)))
                  /\ UNCHANGED <<rtc, raised>>
    /\ UNCHANGED <<opt, dir, request, depth, final, expo, ignoredHit>>
    /\ UNCHANGED <<options, prior, side, cachevars, loadvars>>

\* _resolve_with_tsconfig: an unreadable tsconfig is an error; the snapshot's
\* tsconfig files map no `paths`, so the request goes on to _resolve
_resolve_with_tsconfig ==
    /\ phase = "tsconfig"
    /\ stack = <<>>
    /\ tsret # NoTs
    /\ IF tsret.tag = "Err"
          THEN /\ final' = Error(tsret.err)
               /\ phase' = "symlink"
               /\ UNCHANGED stack
          ELSE /\ stack' = << Frame("_resolve", "enter", Info(dir, parse(request))) >>
               /\ phase' = "main"
               /\ UNCHANGED final
    /\ UNCHANGED <<opt, dir, request, ret, tsret, depth, rtc, result, expo, ignoredHit, raised>>
    /\ UNCHANGED <<options, prior, side, cachevars, loadvars>>

(***************************************************************************)
(* resolve (lib.rs 160-186), second part: map_failed with the fallback      *)
(* alias stage, map_success with the symlink stage, the outcome mapping.    *)
(***************************************************************************)
resolve_map_failed ==
    /\ phase \in {"main", "fallback"}
    /\ stack = <<>>
    /\ ret # NoState
    /\ ret' = NoState
    /\ IF phase = "main" /\ ret.tag = "Failed"
          THEN /\ stack' = << Frame("fallback", "alias", ret.info) >>
               /\ phase' = "fallback"
               /\ UNCHANGED final
          ELSE /\ final' = ret
               /\ phase' = "symlink"
               /\ UNCHANGED stack
    /\ UNCHANGED <<opt, dir, request, tsret, depth, rtc, result, expo, ignoredHit, raised>>
    /\ UNCHANGED <<options, prior, side, cachevars, loadvars>>

\* SymlinkPlugin: with options.symlinks the path of a resource becomes its canonical path
SymlinkPlugin(st) ==
    IF st.tag = "Success" /\ ~st.ignored /\ opt.symlinks
        THEN Success(Resolved(st.info, realpath(get_path(st.info))))
        ELSE st

Ok_Ignored == [NoResult EXCEPT !.tag = "Ok", !.ignored = TRUE]

\* Resource::new
Ok_Resource(info) ==
    [NoResult EXCEPT !.tag = "Ok", !.path = get_path(info), !.query = info.query, !.fragment = info.fragment]

Err_(e) == [NoResult EXCEPT !.tag = "Err", !.err = e]

ResolveFailedTag == Err("ResolveFailedTag", "")

\* a mapping that turns a hard error into the failure tag
outcome_hides_error(st) ==
    IF st.tag = "Success" /\ st.ignored THEN Ok_Ignored
    ELSE IF st.tag = "Success" THEN Ok_Resource(st.info)
    ELSE Err_(ResolveFailedTag)

\* lib.rs 178-186: the match on the final State
outcome(st) ==
    IF st.tag = "Success" /\ st.ignored THEN Ok_Ignored
    ELSE IF st.tag = "Success" THEN Ok_Resource(st.info)
    ELSE IF st.tag = "Error" THEN Err_(st.err)
    ELSE Err_(ResolveFailedTag)

resolve_finish ==
    /\ phase = "symlink"
    /\ result' = outcome(SymlinkPlugin(final))
    /\ phase' = "done"
    /\ UNCHANGED <<opt, dir, request, stack, ret, tsret, depth, rtc, final, expo, ignoredHit, raised>>
    /\ UNCHANGED <<options, prior, side, cachevars, loadvars>>

\* what load_side_effects returns: None, Some((path, side_effects)) or an error
NoSide == [tag |-> "None", of |-> "", some |-> FALSE, path |-> "", side_effects |-> NoSideEffects, err |-> NoErr]

\* paths load_side_effects is called with, besides the resource resolve returned
SidePaths ==
    { "/", "/r/empty", "/r/package.json", "/r/bad/x.js", "/r/nowhere/deep.js", "/r/pd/x.js", "/r/bt/x.js",
      "/r/node_modules/ef/lib", "/r/node_modules/plain/sub/index.js" }

\* the caller hands the path of the resource it got back to resolve, with the
\* same referring directory and the same resolver
resolve_again ==
    /\ phase = "done"
    /\ prior = NoResult
    /\ result.tag = "Ok" /\ ~result.ignored
    /\ prior' = result
    /\ request' = result.path
    /\ phase' = "start"
    /\ stack' = <<>>
    /\ ret' = NoState
    /\ tsret' = NoTs
    /\ depth' = 0
    /\ rtc' = FALSE
    /\ final' = NoState
    /\ result' = NoResult
    /\ expo' = NoExpo
    /\ ignoredHit' = NoHit
    /\ raised' = NoRaise
    /\ side' = NoSide
    /\ UNCHANGED <<options, opt, dir, cachevars, loadvars>>

\* a load_side_effects that names the descriptor's directory
load_side_effects_dir(path) ==
    LET info == pkg_info(path, opt.description_file)
    IN IF ~info.ok /\ info.err = Panic THEN [NoSide EXCEPT !.tag = "Panic", !.of = path]
       ELSE IF ~info.ok THEN [NoSide EXCEPT !.tag = "Err", !.of = path, !.err = info.err]
       ELSE IF info.dir_path = "" THEN [NoSide EXCEPT !.tag = "Ok", !.of = path]
       ELSE [NoSide EXCEPT !.tag = "Ok", !.of = path, !.some = TRUE,
                           !.path = info.dir_path,
                           !.side_effects = info.json.side_effects]

\* Resolver::load_side_effects(path): the descriptor path and the sideEffects of
\* the package info of the entry of `path`
load_side_effects_of(path) ==
    LET info == pkg_info(path, opt.description_file)
    IN IF ~info.ok /\ info.err = Panic THEN [NoSide EXCEPT !.tag = "Panic", !.of = path]
       ELSE IF ~info.ok THEN [NoSide EXCEPT !.tag = "Err", !.of = path, !.err = info.err]
       ELSE IF info.dir_path = "" THEN [NoSide EXCEPT !.tag = "Ok", !.of = path]
       ELSE [NoSide EXCEPT !.tag = "Ok", !.of = path, !.some = TRUE,
                           !.path = join(info.dir_path, opt.description_file),
                           !.side_effects = info.json.side_effects]

\* the caller asks for the side effects of the resource it got back, or of another path
load_side_effects ==
    /\ phase = "done"
    /\ side = NoSide
    /\ \E path \in SidePaths \cup (IF result.tag = "Ok" /\ ~result.ignored THEN {result.path} ELSE {}) :
          side' = load_side_effects_of(path)
    /\ UNCHANGED <<options, prior, cachevars, loadvars>>
    /\ UNCHANGED <<opt, dir, request, phase, stack, ret, tsret, depth, rtc, final, result, expo, ignoredHit, raised>>

(***************************************************************************)
(* The shared cache (entry.rs): threads that run resolve calls on one       *)
(* Cache, over a filesystem that is rewritten between builds.               *)
(***************************************************************************)
Threads == {1, 2}

\* the most rewrites of the filesystem, clears of the cache and resolve calls that are followed
MaxWrites == 1

MaxClears == 1

MaxCalls == 3

CacheDir == "/c"

\* the filesystem under /c as it is before anything is rewritten: package.json names
\* ./one.js as main and is JSON, one.js is a regular file
Disk0 == [main |-> "./one.js", one |-> "file", json |-> "ok"]

\* what a build can leave behind: package.json rewritten with another main,
\* one.js deleted, one.js replaced by a link to two.js
Disks == { Disk0, [Disk0 EXCEPT !.main = "./two.js"], [Disk0 EXCEPT !.one = "none"], [Disk0 EXCEPT !.one = "link"] }

CacheFiles(d) ==
    { "/c/package.json", "/c/alt.json", "/c/two.js", "/c/mod.js", "/c/index.js", "/c/lib/ignore.js" }
        \cup (IF d.one = "none" THEN {} ELSE { "/c/one.js" })

CacheDirs == { "/", "/c", "/c/lib" }

\* EntryStat::stat: the file type of path.metadata(), "none" when there is no such file
stat(d, path) == IF path \in CacheFiles(d) THEN "file" ELSE IF path \in CacheDirs THEN "dir" ELSE "none"

\* path.read_link() and canonicalize: the canonical path of a link, "" for what is not a link
read_link(d, path) == IF path = "/c/one.js" /\ d.one = "link" THEN "/c/two.js" ELSE ""

\* fs.read_description_file with EntryStat::default(), which carries no
\* modification time: the file is read from the disk
disk_description(d, pkg_path) ==
    IF pkg_path = "/c/package.json" /\ d.json = "bad"
        THEN [ok |-> FALSE, err |-> Err("UnexpectedJson", pkg_path), dir_path |-> "", json |-> NoPkg]
    ELSE IF pkg_path = "/c/package.json"
        THEN [ok |-> TRUE, err |-> NoErr, dir_path |-> "/c",
              json |-> [NoPkg EXCEPT !.name = "c", !.main = d.main, !.module = "./mod.js",
                                     !.alias_fields = << <<"./lib/ignore.js", Ignored>> >>]]
    ELSE IF pkg_path = "/c/alt.json"
        THEN [ok |-> TRUE, err |-> NoErr, dir_path |-> "/c", json |-> [NoPkg EXCEPT !.name = "alt", !.main = "./two.js"]]
    ELSE [ok |-> FALSE, err |-> Err("Io", pkg_path), dir_path |-> "", json |-> NoPkg]

\* a OnceCell: unset, busy while the thread `by` runs its initialiser, set to v
UnsetCell(v) == [state |-> "unset", by |-> 0, v |-> v]

BusyCell(t, v) == [state |-> "busy", by |-> t, v |-> v]

SetCell(v) == [state |-> "set", by |-> 0, v |-> v]

\* Entry::new
Entry_new == [pkg_info |-> UnsetCell(NoPkgInfo), stat |-> UnsetCell(""), symlink |-> UnsetCell("")]

\* cache.entries after Cache::default()
NoEntries == <<>>

NoHist == [writes |-> 0, clears |-> 0, calls |-> 0, started |-> 0, dirty |-> FALSE, stale |-> FALSE]

\* a thread that runs no call
Idle ==
    [pc |-> "idle", o |-> new(DefaultOptions), r |-> "", cur |-> "", look |-> "", chain |-> <<>>,
     q |-> "", held |-> <<>>, pkg |-> NoPkgInfo, step |-> "", result |-> NoResult,
     disk |-> Disk0, dirty |-> FALSE, first |-> FALSE, alone |-> FALSE, clears |-> 0, writes |-> 0,
     lost |-> FALSE]

\* the resolvers of shared_cache_test2, and one that reads another description file
CacheResolvers ==
    { new(DefaultOptions),
      new([DefaultOptions EXCEPT !.browser_field = TRUE]),
      new([DefaultOptions EXCEPT !.main_fields = <<"module">>]),
      new([DefaultOptions EXCEPT !.description_file = "alt.json"]) }

CacheRequests == { ".", "./lib/ignore.js" }

InFlight(t) == calls[t].pc \notin {"idle", "done"}

\* the call of thread t returns res
Return(t, res) ==
    [calls[t] EXCEPT !.pc = "done", !.result = res, !.alone = (hist.started = 1),
                     !.cur = "", !.look = "", !.q = "", !.pkg = NoPkgInfo, !.step = ""]

\* a thread calls resolver.resolve(CacheDir, r) on a resolver built on the shared cache
call(t) ==
    /\ ~InFlight(t)
    /\ hist.calls < MaxCalls
    /\ \E o \in CacheResolvers, r \in CacheRequests :
          calls' = [calls EXCEPT ![t] =
                      [Idle EXCEPT !.pc = "get", !.o = o, !.r = r, !.cur = join(CacheDir, r),
                                   !.look = join(CacheDir, r), !.disk = disk, !.dirty = hist.dirty,
                                   !.first = (hist.started = 0), !.clears = hist.clears,
                                   !.writes = hist.writes]]
    /\ hist' = [hist EXCEPT !.calls = @ + 1, !.started = IF @ < 2 THEN @ + 1 ELSE @]
    /\ UNCHANGED <<disk, entries>>
    /\ UNCHANGED <<pipevars, loadvars>>

\* load_entry (entry.rs 153-165): the lookup; a miss goes on with the parent
load_entry_get(t) ==
    LET c == calls[t]
    IN /\ c.pc = "get"
       /\ calls' = [calls EXCEPT ![t] =
                      IF c.look \in DOMAIN entries
                          THEN IF c.chain = <<>> THEN [c EXCEPT !.pc = "pkg", !.q = c.cur]
                               ELSE [c EXCEPT !.pc = "insert"]
                      ELSE IF parent(c.look) = ""
                          THEN [c EXCEPT !.pc = "insert", !.chain = Append(@, c.look)]
                      ELSE [c EXCEPT !.chain = Append(@, c.look), !.look = parent(c.look)]]
       /\ UNCHANGED <<disk, entries, hist>>
       /\ UNCHANGED <<pipevars, loadvars>>

\* load_entry: entry(key).or_insert_with(Entry::new), the parents first
load_entry_insert(t) ==
    LET c == calls[t]
        key == c.chain[Len(c.chain)]
        rest == SubSeq(c.chain, 1, Len(c.chain) - 1)
    IN /\ c.pc = "insert"
       /\ entries' = IF key \in DOMAIN entries THEN entries ELSE entries @@ (key :> Entry_new)
       /\ calls' = [calls EXCEPT ![t] =
                      IF rest = <<>>
                          THEN [c EXCEPT !.pc = "pkg", !.chain = rest, !.q = c.cur, !.lost = @ \/ key \in DOMAIN entries]
                          ELSE [c EXCEPT !.chain = rest, !.lost = @ \/ key \in DOMAIN entries]]
       /\ UNCHANGED <<disk, hist>>
       /\ UNCHANGED <<pipevars, loadvars>>

\* a thread never waits for a cell another thread initialises
once_waits_never(cell, t) == FALSE

\* OnceCell::get_or_try_init: while another thread runs the initialiser the caller waits
once_waits(cell, t) == cell.state = "busy" /\ cell.by # t

\* Entry::cached_stat of the entry of path: the slot after get_or_init
cached_stat(path) ==
    IF entries[path].stat.state = "set" THEN entries[path].stat
    ELSE SetCell(stat(disk, path))

\* Entry::pkg_info (entry.rs 81-115), on the way up: the cell of the entry of q
\* is taken when it is set; else the thread becomes its initialiser, reads the
\* description file of a directory, and goes on with the parent when there is none
pkg_info_up(t) ==
    LET c == calls[t]
        e == entries[c.q]
        st == cached_stat(c.q)
        is_pkg_suffix == path_ends_with(c.q, c.o.description_file)
        r == disk_description(disk, IF is_pkg_suffix THEN c.q ELSE join(c.q, c.o.description_file))
        probes == st.v = "dir" \/ is_pkg_suffix
        mine == [entries EXCEPT ![c.q] = [e EXCEPT !.pkg_info = BusyCell(t, NoPkgInfo), !.stat = st]]
    IN /\ c.pc = "pkg"
       /\ ~once_waits(e.pkg_info, t)
       /\ IF e.pkg_info.state = "set"
             THEN /\ calls' = [calls EXCEPT ![t] = [c EXCEPT !.pc = "fill", !.pkg = e.pkg_info.v]]
                  /\ UNCHANGED entries
          ELSE IF e.pkg_info.state = "busy"
             THEN /\ calls' = [calls EXCEPT ![t] = [c EXCEPT !.pc = "fill", !.pkg = e.pkg_info.v]]
                  /\ UNCHANGED entries
          ELSE /\ entries' = mine
               /\ calls' = [calls EXCEPT ![t] =
                     IF probes /\ r.ok
                         THEN [c EXCEPT !.pc = "fill", !.pkg = r, !.held = Append(@, c.q)]
                     ELSE IF parent(c.q) # ""
                         THEN [c EXCEPT !.held = Append(@, c.q), !.q = parent(c.q)]
                     ELSE [c EXCEPT !.pc = "fill", !.pkg = NoPkgInfo, !.held = Append(@, c.q)]]
       /\ UNCHANGED <<disk, hist>>
       /\ UNCHANGED <<pipevars, loadvars>>

\* Entry::pkg_info, on the way back: each initialiser that was entered sets its cell
pkg_info_fill(t) ==
    LET c == calls[t]
        key == c.held[Len(c.held)]
    IN /\ c.pc = "fill"
       /\ IF c.held = <<>>
             THEN /\ calls' = [calls EXCEPT ![t] = [c EXCEPT !.pc = "stat"]]
                  /\ UNCHANGED entries
             ELSE /\ entries' = [entries EXCEPT ![key].pkg_info = SetCell(c.pkg)]
                  /\ calls' = [calls EXCEPT ![t] = [c EXCEPT !.held = SubSeq(@, 1, Len(@) - 1)]]
       /\ UNCHANGED <<disk, hist>>
       /\ UNCHANGED <<pipevars, loadvars>>

\* the browser field of the descriptor maps the path to false
browser_ignores(o, pkg, path) ==
    /\ o.browser_field
    /\ pkg.dir_path # ""
    /\ \E i \in DOMAIN pkg.json.alias_fields :
          /\ join(pkg.dir_path, pkg.json.alias_fields[i][1]) = path
          /\ pkg.json.alias_fields[i][2].ignored

\* the main field of the descriptor of directory d that the resolver reads, "" when none
main_of(o, pkg, d) ==
    IF pkg.dir_path = d
        THEN FirstNonEmpty([i \in 1..Len(o.main_fields) |-> MainField(pkg.json, o.main_fields[i])])
        ELSE ""

\* the stages of _resolve after the package info is known: the browser field,
\* then the path as a file, then as a directory by its main field and by index.js
resolve_entry(t) ==
    LET c == calls[t]
        st == cached_stat(c.cur)
        main == main_of(c.o, c.pkg, c.cur)
        goto(path, step) == [c EXCEPT !.pc = "get", !.cur = path, !.look = path, !.step = step]
    IN /\ c.pc = "stat"
       /\ IF browser_ignores(c.o, c.pkg, c.cur)
             THEN /\ calls' = [calls EXCEPT ![t] = Return(t, Ok_Ignored)]
                  /\ UNCHANGED entries
             ELSE /\ entries' = [entries EXCEPT ![c.cur].stat = st]
                  /\ calls' = [calls EXCEPT ![t] =
                        IF st.v = "file"
                            THEN IF c.o.symlinks THEN [c EXCEPT !.pc = "symlink"]
                                 ELSE Return(t, [NoResult EXCEPT !.tag = "Ok", !.path = c.cur])
                        ELSE IF st.v = "dir" /\ c.step = ""
                            THEN IF main # "" THEN goto(join(c.cur, main), "main")
                                 ELSE goto(join(c.cur, "index.js"), "index")
                        ELSE IF c.step = "main"
                            THEN goto(join(parent(c.cur), "index.js"), "index")
                        ELSE Return(t, Err_(ResolveFailedTag))]
       /\ UNCHANGED <<disk, hist>>
       /\ UNCHANGED <<pipevars, loadvars>>

\* the symlink stage: Entry::symlink of the resolved file (entry.rs 139-149)
symlink_entry(t) ==
    LET c == calls[t]
        e == entries[c.cur]
        cell == IF e.symlink.state = "set" THEN e.symlink ELSE SetCell(read_link(disk, c.cur))
    IN /\ c.pc = "symlink"
       /\ entries' = [entries EXCEPT ![c.cur].symlink = cell]
       /\ calls' = [calls EXCEPT ![t] =
              Return(t, [NoResult EXCEPT !.tag = "Ok", !.path = IF cell.v # "" THEN cell.v ELSE c.cur])]
       /\ UNCHANGED <<disk, hist>>
       /\ UNCHANGED <<pipevars, loadvars>>

RECURSIVE private_pkg(_, _, _)
\* Entry::pkg_info on a cache that holds nothing: every cell on the way up is
\* initialised by this resolver, from the disk d
private_pkg(o, d, path) ==
    LET is_pkg_suffix == path_ends_with(path, o.description_file)
        r == disk_description(d, IF is_pkg_suffix THEN path ELSE join(path, o.description_file))
    IN IF (stat(d, path) = "dir" \/ is_pkg_suffix) /\ r.ok THEN r
       ELSE IF parent(path) # "" THEN private_pkg(o, d, parent(path))
       ELSE NoPkgInfo

RECURSIVE private_entry(_, _, _, _)
\* the stages of resolve_entry and symlink_entry on a cache that holds nothing
private_entry(o, d, cur, step) ==
    LET pkg == private_pkg(o, d, cur)
        main == main_of(o, pkg, cur)
    IN IF browser_ignores(o, pkg, cur) THEN Ok_Ignored
       ELSE IF stat(d, cur) = "file"
           THEN [NoResult EXCEPT !.tag = "Ok",
                                 !.path = IF o.symlinks /\ read_link(d, cur) # "" THEN read_link(d, cur) ELSE cur]
       ELSE IF stat(d, cur) = "dir" /\ step = ""
           THEN IF main # "" THEN private_entry(o, d, join(cur, main), "main")
                ELSE private_entry(o, d, join(cur, "index.js"), "index")
       ELSE IF step = "main" THEN private_entry(o, d, join(parent(cur), "index.js"), "index")
       ELSE Err_(ResolveFailedTag)

\* what resolve(CacheDir, r) returns on a resolver with options o and a cache
\* of its own (Cache::default(), lib.rs 97-101), over the disk d
private_resolve(o, d, r) == private_entry(o, d, join(CacheDir, r), "")

\* a clear that leaves the entries in the cache
cleared_keeps(e) == e

\* cache.entries.clear()
cleared(e) == NoEntries

\* clear_entries (entry.rs 168-170), called between builds: no resolve is in flight
clear_entries ==
    /\ \A t \in Threads : ~InFlight(t)
    /\ hist.clears < MaxClears
    /\ entries' = cleared(entries)
    /\ hist' = [hist EXCEPT !.clears = @ + 1, !.started = 0, !.dirty = FALSE, !.stale = hist.dirty]
    /\ UNCHANGED <<disk, calls>>
    /\ UNCHANGED <<pipevars, loadvars>>

\* a build rewrites the files under /c while no resolve is in flight
write ==
    /\ \A t \in Threads : ~InFlight(t)
    /\ hist.writes < MaxWrites
    /\ \E d \in Disks \ {disk} : disk' = d
    /\ hist' = [hist EXCEPT !.writes = @ + 1, !.dirty = @ \/ entries # NoEntries]
    /\ UNCHANGED <<entries, calls>>
    /\ UNCHANGED <<pipevars, loadvars>>

(***************************************************************************)
(* load_entry and clear_entries (entry.rs 153-170) on shared handles: an    *)
(* Entry holds the Arc of its parent, cache.entries maps a path to the Arc  *)
(* of its Entry, and clear_entries may run while load_entry calls are in    *)
(* flight.                                                                  *)
(***************************************************************************)
\* the most load_entry calls and clears that are followed
MaxLoads == 2

MaxLoadClears == 1

\* the paths load_entry is called with
LoadPaths == { "/c", "/c/lib" }

\* a thread that runs no call; done counts the calls it has finished.  A call
\* is what _resolve does with a path (lib.rs 207-208): load_entry, then
\* pkg_info on the entry it got.  q is the entry whose pkg_info runs, held the
\* entries whose initialiser the thread is in, out what pkg_info returns, and
\* read tells that the call has read a description file
NoLoad ==
    [pc |-> "idle", frames |-> <<>>, got |-> 0, done |-> 0, q |-> 0, held |-> <<>>, out |-> NoPkgInfo,
     read |-> FALSE]

\* Entry::new(parent, path) in generation g of the cache; failed tells that
\* an initialiser of the package-info slot has returned an error
Entry_new_under(parent_handle, path, g) ==
    [path |-> path, parent |-> parent_handle, gen |-> g, pkg_info |-> UnsetCell(NoPkgInfo), failed |-> FALSE]

\* an activation of load_entry(path): pc is "get" before the lookup, "insert"
\* once the parent handle (0 for None) is known
LoadFrame(path) == [path |-> path, pc |-> "get", parent |-> 0]

\* the activation on top of thread t returns handle h: to the activation
\* below, which takes it for its parent, or to the caller of load_entry
LoadReturn(t, h) ==
    LET fs == loads[t].frames
        n == Len(fs)
    IN IF n = 1
          THEN [loads[t] EXCEPT !.frames = <<>>, !.got = h, !.pc = "pkg", !.q = h]
          ELSE [loads[t] EXCEPT !.frames =
                   Append(SubSeq(fs, 1, n - 2), [fs[n - 1] EXCEPT !.pc = "insert", !.parent = h])]

\* some resolve on thread t calls load_entry(path)
load_entry_call(t) ==
    /\ loads[t].pc = "idle"
    /\ loads[1].done + loads[2].done + Cardinality({ u \in Threads : loads[u].pc # "idle" }) < MaxLoads
    /\ \E path \in LoadPaths :
          loads' = [loads EXCEPT ![t] =
                      [NoLoad EXCEPT !.pc = "load", !.frames = << LoadFrame(path) >>, !.done = loads[t].done]]
    /\ UNCHANGED <<arena, table, gen>>
    /\ UNCHANGED <<pipevars, cachevars>>

\* lines 154-158: cache.entries.get(key); on a miss load_entry(parent) is called first
load_entry_lookup(t) ==
    LET fs == loads[t].frames
        f == fs[Len(fs)]
    IN /\ fs # <<>>
       /\ f.pc = "get"
       /\ loads' = [loads EXCEPT ![t] =
             IF f.path \in DOMAIN table THEN LoadReturn(t, table[f.path])
             ELSE IF parent(f.path) = ""
                 THEN [@ EXCEPT !.frames = Append(SubSeq(fs, 1, Len(fs) - 1), [f EXCEPT !.pc = "insert"])]
             ELSE [@ EXCEPT !.frames = Append(fs, LoadFrame(parent(f.path)))]]
       /\ UNCHANGED <<arena, table, gen>>
       /\ UNCHANGED <<pipevars, cachevars>>

\* lines 159-164: cache.entries.entry(key).or_insert_with(|| Arc::new(Entry::new(parent, key)))
load_entry_or_insert(t) ==
    LET fs == loads[t].frames
        f == fs[Len(fs)]
        h == Len(arena) + 1
    IN /\ fs # <<>>
       /\ f.pc = "insert"
       /\ IF f.path \in DOMAIN table
             THEN /\ loads' = [loads EXCEPT ![t] = LoadReturn(t, table[f.path])]
                  /\ UNCHANGED <<arena, table>>
             ELSE /\ arena' = Append(arena, Entry_new_under(f.parent, f.path, gen))
                  /\ table' = table @@ (f.path :> h)
                  /\ loads' = [loads EXCEPT ![t] = LoadReturn(t, h)]
       /\ UNCHANGED gen
       /\ UNCHANGED <<pipevars, cachevars>>

\* the package-info slot after OnceCell::get_or_try_init whose initialiser
\* returned out and kept the error
get_or_try_init_keeps(out) == SetCell(out)

\* the package-info slot after OnceCell::get_or_try_init (entry.rs 82) whose
\* initialiser returned out: set on Ok, left as it was on Err
get_or_try_init(out) == IF out.ok THEN SetCell(out) ELSE UnsetCell(NoPkgInfo)

\* Entry::pkg_info (entry.rs 81-115) on the entry q, on the way up: a set slot
\* is the result; else the thread runs the initialiser, reads the description
\* file of a directory, returns what it holds or the error of a file that is
\* not JSON, and goes on with the parent handle when there is no such file
pkg_info_enter(t) ==
    LET c == loads[t]
        e == arena[c.q]
        is_pkg_suffix == path_ends_with(e.path, DefaultOptions.description_file)
        probes == stat(disk, e.path) = "dir" \/ is_pkg_suffix
        r == disk_description(disk, IF is_pkg_suffix THEN e.path
                                    ELSE join(e.path, DefaultOptions.description_file))
        back(out) == [c EXCEPT !.pc = "back", !.out = out, !.held = Append(@, c.q), !.read = @ \/ probes]
    IN /\ c.pc = "pkg"
       /\ ~once_waits(e.pkg_info, t)
       /\ IF e.pkg_info.state = "set"
             THEN /\ loads' = [loads EXCEPT ![t] = [c EXCEPT !.pc = "back", !.out = e.pkg_info.v]]
                  /\ UNCHANGED arena
             ELSE /\ arena' = [arena EXCEPT ![c.q].pkg_info = BusyCell(t, NoPkgInfo)]
                  /\ loads' = [loads EXCEPT ![t] =
                        IF probes /\ r.ok THEN back(r)
                        ELSE IF probes /\ r.err.kind \in {"UnexpectedJson", "UnexpectedValue"} THEN back(r)
                        ELSE IF e.parent # 0
                            THEN [c EXCEPT !.q = e.parent, !.held = Append(@, c.q), !.read = @ \/ probes]
                        ELSE back(NoPkgInfo)]
       /\ UNCHANGED <<table, gen>>
       /\ UNCHANGED <<pipevars, cachevars>>

\* Entry::pkg_info, on the way back: each get_or_try_init that was entered
\* ends, the innermost first; then pkg_info returns to _resolve
pkg_info_leave(t) ==
    LET c == loads[t]
        key == c.held[Len(c.held)]
    IN /\ c.pc = "back"
       /\ IF c.held = <<>>
             THEN /\ loads' = [loads EXCEPT ![t] = [c EXCEPT !.pc = "idle", !.done = @ + 1]]
                  /\ UNCHANGED arena
             ELSE /\ arena' = [arena EXCEPT ![key].pkg_info = get_or_try_init(c.out),
                                            ![key].failed = @ \/ ~c.out.ok]
                  /\ loads' = [loads EXCEPT ![t] = [c EXCEPT !.held = SubSeq(@, 1, Len(@) - 1)]]
       /\ UNCHANGED <<table, gen>>
       /\ UNCHANGED <<pipevars, cachevars>>

\* /c/package.json is rewritten while calls are in flight: with a text that is
\* not JSON, or with its JSON again
write_description ==
    /\ hist.writes < MaxWrites
    /\ disk' = [disk EXCEPT !.json = IF @ = "ok" THEN "bad" ELSE "ok"]
    /\ hist' = [hist EXCEPT !.writes = @ + 1]
    /\ UNCHANGED <<entries, calls>>
    /\ UNCHANGED <<pipevars, loadvars>>

\* clear_entries (entry.rs 168-170) called by another thread, whatever is in flight
clear_entries_in_flight ==
    /\ gen < MaxLoadClears
    /\ table' = NoEntries
    /\ gen' = gen + 1
    /\ UNCHANGED <<arena, loads>>
    /\ UNCHANGED <<pipevars, cachevars>>

(***************************************************************************)
(* The resolvers and requests that are checked.                            *)
(***************************************************************************)
\* the longest alias chain that is tried
MaxChain == 128

Digits == <<"0", "1", "2", "3", "4", "5", "6", "7", "8", "9">>

RECURSIVE ToStr(_)
ToStr(n) == IF n < 10 THEN Digits[n + 1] ELSE ToStr(n \div 10) \o Digits[(n % 10) + 1]

\* './n1' -> './n2' -> ... -> './n<k+1>': k rewrites in sequence
AliasChain(k) == [i \in 1..k |-> << "./n" \o ToStr(i), Target("./n" \o ToStr(i + 1)) >>]

ChainLens == {1, 2} \cup ((MaxChain - 4)..MaxChain)

AliasCycle == << <<"./e", Target("./d")>>, <<"./d", Target("./e")>> >>

AliasOrderAB == << <<"@A/index", Target("./a")>>, <<"@A", Target("./b")>> >>

AliasOrderBA == << <<"@A", Target("./b")>>, <<"@A/index", Target("./a")>> >>

AliasTest ==
    << <<"aliasA", Target("./a")>>,
       <<"fs", Target("./x.js")>>,
       <<"./e", Target("./d")>>,
       <<"./d", Target("./e")>>,
       <<"@m/index", Target("./missing")>>,
       <<"@m", Target("./a")>>,
       <<"toef", Target("ef/private.js")>>,
       <<"./c", Target("./c")>>,
       <<"ignore", Ignored>>,
       <<"./ig.js", Ignored>> >>

O(alias, exts, browser, ts) ==
    [DefaultOptions EXCEPT !.alias = alias, !.extensions = exts, !.browser_field = browser, !.tsconfig = ts]

JsTs == <<".js", ".ts">>

TsJs == <<".ts", ".js">>

PlainOptions ==
    { O(<<>>, JsTs, FALSE, ""), O(<<>>, TsJs, FALSE, ""), O(<<>>, JsTs, TRUE, ""),
      [O(<<>>, JsTs, FALSE, "") EXCEPT !.condition_names = {"webpack"}],
      [O(<<>>, JsTs, FALSE, "") EXCEPT !.prefer_relative = TRUE],
      [O(<<>>, JsTs, FALSE, "") EXCEPT !.symlinks = FALSE],
      [O(<<>>, JsTs, FALSE, "") EXCEPT !.resolve_to_context = TRUE],
      [O(<<>>, JsTs, FALSE, "") EXCEPT !.fully_specified = TRUE],
      [O(<<>>, <<"", ".js">>, FALSE, "") EXCEPT !.enforce_extension = "Auto"],
      [O(<<>>, <<".js", "">>, FALSE, "") EXCEPT !.enforce_extension = "Disabled"],
      [O(<<>>, JsTs, FALSE, "") EXCEPT !.enforce_extension = "Enabled"],
      O(<<>>, <<"ts", ".js">>, FALSE, ""),
      O(<<>>, JsTs, FALSE, "/r/tsconfig.json"), O(<<>>, JsTs, FALSE, "./ts4.json"),
      O(<<>>, JsTs, FALSE, "/r/nots.json") }

AliasOptions ==
    { O(AliasTest, JsTs, FALSE, ""), O(AliasTest, JsTs, TRUE, ""),
      O(AliasOrderAB, JsTs, FALSE, ""), O(AliasOrderBA, JsTs, FALSE, ""),
      O(AliasCycle, JsTs, FALSE, ""),
      O(AliasTest, JsTs, FALSE, "/r/ts2.json"), O(AliasTest, JsTs, FALSE, "/r/ts3.json") }

\* resolvers whose tsconfig extends another file: one with an explicit null, one at
\* the head of a chain of three files
ExtendsOptions == { O(<<>>, JsTs, FALSE, "/r/ts5.json"), O(<<>>, JsTs, FALSE, "/r/ts6.json") }

\* resolvers whose tsconfig extends itself, or a file that extends it
CyclicOptions == { O(<<>>, JsTs, FALSE, "/r/ts7.json"), O(<<>>, JsTs, FALSE, "/r/ts8.json") }

Targets ==
    { "./x", "./x.js", "./a", "./missing", "./e", "./c", "./ig.js", "./link.js", "./empty",
      "./bad/x.js", "./bad", "./pd/x.js", "./no.js", "./self.js", "./loop.js", "./tobad.js", "/r/x.js", "..",
      "@A/index", "@m/index", "aliasA", "aliasA/aliasA", "ignore", "ignore/a", "ignored/a", "ignore-a", "toef", "fs", "mod",
      "ef", "ef/", "ef/dist/main.js", "ef/dist/nope.js", "ef/one/z", "ef/private.js", "ef/gone",
      "ef/multi", "ef/cond", "ef/cyc", "ef/ign", "ef/dir/main.js", "@s/n", "@s",
      "app/pub", "app/x.js", "appx/pub", "plain", "plain/sub", "m", "nomod",
      "./bare", "./bare.js", "./only", "./x.", "./linked", "./linked/index.js", "os", "path" }

\* resolvers with a fallback map, without and with an alias map
FallbackOptions ==
    { [O(<<>>, JsTs, FALSE, "") EXCEPT !.fallback = << <<"./missing", Target("./x.js")>>, <<"nomod", Target("./a")>> >>],
      [O(<< <<"aliasB", Target("./missing")>> >>, JsTs, FALSE, "")
          EXCEPT !.fallback = << <<"./missing", Target("./x.js")>> >>] }

\* requests of every kind, as in test_resolver (kind.rs 145-170)
KindTargets ==
    { "", "fs", "fs/promises", "fsx", "#a", "#", "/", "/r/a", ".", "..", "./", "../r/x", ".x", "..x", ".../x",
      "D:", "C:path", "C:\\a", "c:/a", "cc:/a", "1:/a", ":/", "C", "a/C:/x" }

SuffixTargets == { "./x", "./a", "aliasA", "ef/dist/main.js", "ef/dir/main.js", "ef/one/z", "ef", "plain", "m" }

Suffixes == { "?q", "#f", "?q#f", "#f?q", "?#f" }

Cases ==
    [o : PlainOptions \cup AliasOptions, d : {"/r"}, r : Targets]
    \cup [o : {O(<<>>, JsTs, TRUE, ""), O(AliasTest, JsTs, TRUE, "")}, d : {"/r/lib", "/r/web"}, r : Targets]
    \cup [o : {O(<<>>, JsTs, FALSE, ""), O(AliasTest, JsTs, FALSE, "")}, d : {"/r"},
          r : { t \o s : t \in SuffixTargets, s \in Suffixes }]
    \cup { [o |-> O(AliasChain(k), JsTs, FALSE, ""), d |-> "/r", r |-> "./n1"] : k \in ChainLens }
    \cup [o : ExtendsOptions, d : {"/r"}, r : {"./x", "./missing"}]
    \cup [o : CyclicOptions, d : {"/r"}, r : {"./x", "./missing"}]
    \cup [o : {O(<<>>, JsTs, FALSE, "")}, d : {"/r"}, r : KindTargets]
    \cup [o : {O(<<>>, JsTs, FALSE, "")}, d : {"/r"}, r : {"./no#fragment/#/", "./no#fragment/#/#", "./no?a#b?c#d"}]
    \cup [o : {O(<<>>, JsTs, FALSE, "")}, d : {"/r/no#fragment"}, r : {"./#/#.js", "./#/#", "#/#"}]
    \cup [o : {O(<<>>, JsTs, FALSE, "")}, d : {"/r/no#fragment/#"}, r : {"#", "#.js", "./#", "../../a"}]
    \cup [o : {O(<<>>, JsTs, TRUE, "")}, d : {"/r/bs", "/r/bn"}, r : {"./y", "./y.js", "selfm"}]
    \cup [o : {[O(<<>>, JsTs, FALSE, "") EXCEPT !.resolve_to_context = TRUE]}, d : {"/r"}, r : {"ef/d", "ef/multi"}]
    \cup [o : {O(<<>>, JsTs, FALSE, "")}, d : {"/r"}, r : {"ef/d"}]
    \cup [o : {O(<<>>, JsTs, FALSE, "")}, d : {"/r/bt"}, r : {"./x.js", "m", "../x.js"}]
    \cup [o : {O(<<>>, JsTs, FALSE, "")}, d : {"/r/sc"}, r : {"@sc", "@sc/x.js", "@s", "@s/n", "./x.js"}]
    \cup [o : {O(<<>>, JsTs, FALSE, "")}, d : {"/r/node_modules/ef"}, r : {"@in", "@in/p", "@s", "@s/n", "ef"}]
    \cup [o : FallbackOptions, d : {"/r"}, r : {"./missing", "./x", "./bad/x.js", "aliasB", "nomod"}]

Init ==
    /\ \E c \in Cases : options = c.o /\ opt = new(c.o) /\ dir = c.d /\ request = c.r
    /\ phase = "start"
    /\ stack = <<>>
    /\ ret = NoState
    /\ tsret = NoTs
    /\ depth = 0
    /\ rtc = FALSE
    /\ final = NoState
    /\ result = NoResult
    /\ expo = NoExpo
    /\ ignoredHit = NoHit
    /\ raised = NoRaise
    /\ prior = NoResult
    /\ side = NoSide
    /\ disk = Disk0
    /\ entries = NoEntries
    /\ calls = [t \in Threads |-> Idle]
    /\ hist = NoHist
    /\ arena = <<>>
    /\ table = NoEntries
    /\ loads = [t \in Threads |-> NoLoad]
    /\ gen = 0

Next ==
    \/ resolve
    \/ _resolve_enter
    \/ ParsePlugin
    \/ AliasPlugin
    \/ PreferRelativePlugin
    \/ load_pkg_info
    \/ BrowserFieldPlugin
    \/ main_dispatch
    \/ resolve_as_modules
    \/ walk_node_modules
    \/ ExportsFieldPlugin
    \/ resolve_in_package
    \/ _resolve_leave
    \/ parse_file_to_value
    \/ _resolve_with_tsconfig
    \/ resolve_map_failed
    \/ resolve_finish
    \/ resolve_again
    \/ load_side_effects

Spec == Init /\ [][Next]_vars

\* the shared cache right after Cache::default() over the filesystem d, no
\* thread has called resolve
InitCacheOn(d) ==
    /\ options = DefaultOptions
    /\ opt = new(DefaultOptions)
    /\ dir = CacheDir
    /\ request = "."
    /\ phase = "start"
    /\ stack = <<>>
    /\ ret = NoState
    /\ tsret = NoTs
    /\ depth = 0
    /\ rtc = FALSE
    /\ final = NoState
    /\ result = NoResult
    /\ expo = NoExpo
    /\ ignoredHit = NoHit
    /\ raised = NoRaise
    /\ prior = NoResult
    /\ side = NoSide
    /\ disk = d
    /\ entries = NoEntries
    /\ calls = [t \in Threads |-> Idle]
    /\ hist = NoHist
    /\ arena = <<>>
    /\ table = NoEntries
    /\ loads = [t \in Threads |-> NoLoad]
    /\ gen = 0

InitCache == InitCacheOn(Disk0)

NextCache ==
    \/ \E t \in Threads : call(t)
    \/ \E t \in Threads : load_entry_get(t)
    \/ \E t \in Threads : load_entry_insert(t)
    \/ \E t \in Threads : pkg_info_up(t)
    \/ \E t \in Threads : pkg_info_fill(t)
    \/ \E t \in Threads : resolve_entry(t)
    \/ \E t \in Threads : symlink_entry(t)

\* two threads that call resolvers on one cache, over a filesystem that does not change
SpecCache == InitCache /\ [][NextCache]_vars

NextBuilds ==
    \/ call(1)
    \/ load_entry_get(1)
    \/ load_entry_insert(1)
    \/ pkg_info_up(1)
    \/ pkg_info_fill(1)
    \/ resolve_entry(1)
    \/ symlink_entry(1)
    \/ clear_entries
    \/ write

NextLoad ==
    \/ \E t \in Threads : load_entry_call(t)
    \/ \E t \in Threads : load_entry_lookup(t)
    \/ \E t \in Threads : load_entry_or_insert(t)
    \/ \E t \in Threads : pkg_info_enter(t)
    \/ \E t \in Threads : pkg_info_leave(t)
    \/ clear_entries_in_flight
    \/ write_description

\* the shared cache right after Cache::default(), over a filesystem whose
\* /c/package.json is JSON, or is not
InitLoad == \E d \in { Disk0, [Disk0 EXCEPT !.json = "bad"] } : InitCacheOn(d)

\* two threads that call load_entry and pkg_info on one cache while the cache
\* may be cleared and the description file rewritten
SpecLoad == InitLoad /\ [][NextLoad]_vars

\* one thread that calls resolvers on one cache, one call after the other, with
\* rewrites of the filesystem and clears of the cache between the calls
SpecBuilds == InitCache /\ [][NextBuilds]_vars

(***************************************************************************)
(* Properties.                                                             *)
(***************************************************************************)
Overflow == Err("Overflow", "")

IsResource == result.tag = "Ok" /\ ~result.ignored

\* the tsconfig of the resolver, when it has one, was loaded without an error
TsConfigLoaded == tsret.tag # "Err"

\* C1 as stated: exports authority.  When the exports stage of the request's
\* own activation looked the request up and no candidate resolved to an
\* existing file, resolve returns Err(UnexpectedValue("Package path <target>
\* is not exported")).
C1_AsStated ==
    (phase = "done" /\ expo.ran /\ ~expo.anyFile)
        => result = Err_(Err("UnexpectedValue", "Package path " \o expo.target \o " is not exported"))

\* C1: exports authority.  When the exports stage of the request's own
\* activation obtained a candidate list and no candidate resolved to an
\* existing file, then resolve returns Ok(Ignored) if a candidate resolved to
\* Ignored, and otherwise Err(UnexpectedValue("Package path <target> is not
\* exported")), also when the requested file exists in the package; the
\* request is never resolved as a plain file or directory.
C1_ExportsAuthority ==
    (phase = "done" /\ expo.ran /\ ~expo.anyFile)
        => IF expo.anyIgnored
              THEN result = Ok_Ignored
              ELSE result = Err_(Err("UnexpectedValue", "Package path " \o expo.target \o " is not exported"))

C1_Witness ==
    /\ phase = "done"
    /\ request = "ef/private.js"
    /\ is_file("/r/node_modules/ef/private.js")
    /\ expo.ran /\ ~expo.anyFile /\ ~expo.anyIgnored
    /\ result = Err_(Err("UnexpectedValue", "Package path ef/private.js is not exported"))

\* the alias map holds the two entries './e' -> './d' and './d' -> './e'
HasCycle ==
    /\ \E i \in DOMAIN opt.alias : opt.alias[i] = <<"./e", Target("./d")>>
    /\ \E i \in DOMAIN opt.alias : opt.alias[i] = <<"./d", Target("./e")>>

\* C2: with the alias entries './e' -> './d' and './d' -> './e', resolve(dir,
\* './e') ends and returns Err(Overflow), from every directory and whether or
\* not the files e.js and d.js exist.
C2_AliasCycleOverflow ==
    (phase = "done" /\ HasCycle /\ request = "./e" /\ TsConfigLoaded) => result = Err_(Overflow)

C2_Witness ==
    /\ phase = "done" /\ HasCycle /\ request = "./e" /\ dir = "/r"
    /\ is_file("/r/e.js") /\ is_file("/r/d.js")
    /\ result = Err_(Overflow)

\* the alias map is a chain that rewrites './n1' Len(opt.alias) times in sequence
IsChain == opt.alias # <<>> /\ opt.alias = AliasChain(Len(opt.alias)) /\ request = "./n1"

\* C3 as stated: a chain of at most 126 rewrites never gives Overflow, a chain
\* of at least 127 rewrites always does.
C3_AsStated ==
    (phase = "done" /\ IsChain)
        => /\ Len(opt.alias) <= 126 => result # Err_(Overflow)
           /\ Len(opt.alias) >= 127 => result = Err_(Overflow)

\* C3: depth threshold.  A chain of at most 125 alias rewrites in sequence
\* never gives Overflow, a chain of at least 126 rewrites always returns
\* Err(Overflow): the 127th nested _resolve is the one that is refused.
C3_DepthThreshold ==
    (phase = "done" /\ IsChain)
        => /\ Len(opt.alias) <= 125 => result # Err_(Overflow)
           /\ Len(opt.alias) >= 126 => result = Err_(Overflow)

C3_Witness == phase = "done" /\ IsChain /\ Len(opt.alias) = 126 /\ result = Err_(Overflow) /\ depth = 1

RECURSIVE SuffixAt(_, _)
SuffixAt(s, i) ==
    IF i > Len(s) \/ CharAt(s, i) \in {"?", "#"} THEN i ELSE SuffixAt(s, i + 1)

\* the query and fragment of the request as written
Written == Drop(request, SuffixAt(request, 1) - 1)

\* C5 as stated: query/fragment preservation.  A request that resolves to a
\* resource gets back its query and fragment exactly as written, in the
\* written order.
C5_AsStated ==
    (phase = "done" /\ IsResource) => result.query \o result.fragment = Written


\* the extensions in the order resolve-as-file probes them for './x' in /r,
\* and the first of them whose file exists
FirstExisting(exts, i) ==
    /\ is_file("/r/x" \o exts[i])
    /\ \A k \in 1..(i - 1) : ~is_file("/r/x" \o exts[k])

\* C6: extension priority.  With x.js and x.ts both in /r, './x' yields the
\* file of the first extension in list order: x.js for ['.js', '.ts'] and x.ts
\* for the reversed list.
C6_ExtensionPriority ==
    (phase = "done" /\ request = "./x" /\ dir = "/r" /\ TsConfigLoaded
        /\ ~opt.fully_specified /\ ~opt.resolve_to_context)
        => /\ IsResource
           /\ \E i \in DOMAIN opt.extensions :
                 FirstExisting(opt.extensions, i) /\ result.path = "/r/x" \o opt.extensions[i]
           /\ opt.extensions = <<".js", ".ts">> => result.path = "/r/x.js"
           /\ opt.extensions = <<".ts", ".js">> => result.path = "/r/x.ts"

C6_Witness ==
    /\ phase = "done" /\ request = "./x" /\ dir = "/r"
    /\ is_file("/r/x.js") /\ is_file("/r/x.ts")
    /\ opt.extensions = <<".ts", ".js">>
    /\ result.path = "/r/x.ts"

\* an activation that has left its alias stage
PastAlias(f) == f.fn = "_resolve" /\ f.stage \notin {"enter", "parse", "alias"}

\* entry e of the alias map matches the target and is not skipped
Acts(target, e) ==
    /\ target = opt.alias[e][1] \/ starts_with(target, opt.alias[e][1] \o "/")
    /\ opt.alias[e][2].ignored \/ ~starts_with(target, opt.alias[e][2].to)

\* C7: alias first-match.  In every activation that has left its alias stage,
\* each acting entry before the one that decided the stage (all acting
\* entries, when none decided it) had a sub-resolution that came back Failed
\* or Resolving; '@A/index' resolves under a with '@A/index' -> './a' before
\* '@A' -> './b', and under b with the two entries swapped.
C7_AliasFirstMatch ==
    /\ \A k \in DOMAIN stack :
          PastAlias(stack[k]) =>
             LET f == stack[k]
                 upto == IF f.by = 0 THEN Len(opt.alias) ELSE f.by - 1
             IN /\ \A e \in 1..upto : Acts(f.info.target, e) => e \in f.unfinished
                /\ f.by # 0 => Acts(f.info.target, f.by)
    /\ (phase = "done" /\ request = "@A/index" /\ opt.alias = AliasOrderAB) => result.path = "/r/a/index.js"
    /\ (phase = "done" /\ request = "@A/index" /\ opt.alias = AliasOrderBA) => result.path = "/r/b/index.js"

C7_Witness ==
    /\ phase = "done" /\ request = "@A/index" /\ opt.alias = AliasOrderBA
    /\ result.path = "/r/b/index.js"

\* C8 as stated: Ignored propagation.  Once the alias stage or the browser
\* stage reached a matching Ignored entry, resolve returns Ok(Ignored).
C8_AsStated ==
    (phase = "done" /\ ignoredHit.by # "") => result = Ok_Ignored

\* the states in which an Ignored outcome is on its way out of the pipeline
IgnoredOnItsWay ==
    \/ ret = SuccessIgnored
    \/ stack # <<>> /\ Top.st = SuccessIgnored
    \/ final = SuccessIgnored

\* C8: Ignored propagation.  Once the alias stage or the browser stage reached
\* a matching Ignored entry outside the resolution of a tsconfig `extends`,
\* the outcome stays Success(Ignored) through every later stage and resolve
\* returns Ok(Ignored); reached inside the resolution of a tsconfig `extends`
\* it makes resolve return Err(UnexpectedValue(".. had been ignored in ..")).
C8_IgnoredPropagation ==
    /\ (ignoredHit.by # "" /\ ~ignoredHit.inExtends)
          => /\ phase \in {"main", "fallback", "symlink"} => IgnoredOnItsWay
             /\ phase = "done" => result = Ok_Ignored
    /\ (ignoredHit.by # "" /\ ignoredHit.inExtends /\ phase = "done")
          => /\ result.tag = "Err"
             /\ result.err.kind = "UnexpectedValue"
             /\ contains(result.err.msg, " had been ignored in ")

C8_Witness ==
    /\ phase = "done" /\ request = "ef/ign" /\ ignoredHit = [by |-> "alias", inExtends |-> FALSE]
    /\ result = Ok_Ignored

\* C9 as stated: a hard error raised in a nested sub-resolution is the error
\* resolve returns.
C9_AsStated ==
    (phase = "done" /\ raised.err # NoErr /\ raised.nested) => result = Err_(raised.err)

\* C10: outcome mapping.  resolve returns Err(ResolveFailed) exactly when the
\* pipeline ended in Failed or Resolving, Error(e) gives Err(e),
\* Success(Ignored) gives Ok(Ignored) and Success(Resource) a resource; no
\* State inside the pipeline carries the ResolveFailed tag.
C10_OutcomeMapping ==
    /\ phase = "done" =>
          /\ result = Err_(ResolveFailedTag) <=> final.tag \in {"Failed", "Resolving"}
          /\ final.tag = "Error" => result = Err_(final.err)
          /\ (final.tag = "Success" /\ final.ignored) => result = Ok_Ignored
          /\ (final.tag = "Success" /\ ~final.ignored) => IsResource
    /\ \A k \in DOMAIN stack : stack[k].st.err # ResolveFailedTag
    /\ ret.err # ResolveFailedTag /\ final.err # ResolveFailedTag /\ tsret.err # ResolveFailedTag

C10_Witness ==
    /\ phase = "done" /\ request = "./missing" /\ final.tag \in {"Failed", "Resolving"}
    /\ result = Err_(ResolveFailedTag)

\* the call at hand resolves the path an earlier call of the same resolver returned
IsSecondCall == prior # NoResult

BareFirst == opt.enforce_extension = "Disabled" \/ (opt.extensions # <<>> /\ opt.extensions[1] = "")

\* the path handed to the second call is a target as a whole: request parsing
\* finds no query and no fragment in it
PathIsTarget == parse(request).target = request

\* the browser field that is applied to the path handed to the second call
\* maps no key to itself
NoSelfMapping ==
    LET pi == pkg_info(request, opt.description_file)
    IN (opt.browser_field /\ pi.ok /\ pi.dir_path # "") =>
          \A i \in DOMAIN pi.json.alias_fields :
             pi.json.alias_fields[i][2].ignored \/ pi.json.alias_fields[i][2].to # pi.json.alias_fields[i][1]

SameCall(s, t) ==
    /\ calls[s].pc = "done" /\ calls[t].pc = "done"
    /\ calls[s].o = calls[t].o /\ calls[s].r = calls[t].r

\* C12: two resolve calls with identical (dir, request) on resolvers with the
\* same options and the same cache, issued from different threads over an
\* unchanging filesystem, return identical results under every interleaving
\* of their lookups, inserts and once-init slot initialisations.
C12_ConcurrentIdentical ==
    \A s, t \in Threads : SameCall(s, t) => calls[s].result = calls[t].result

\* both threads returned Ignored for './lib/ignore.js' with the browser field,
\* and each of them lost an insert to the other
C12_Witness ==
    /\ SameCall(1, 2)
    /\ calls[1].o.browser_field /\ calls[1].r = "./lib/ignore.js"
    /\ calls[1].lost /\ calls[2].lost
    /\ calls[1].result = Ok_Ignored /\ calls[2].result = Ok_Ignored


\* the call thread t returned from began on a cache that held nothing older
\* than the files as they were during the call
Current(t) == calls[t].pc = "done" /\ ~calls[t].dirty

\* C13 as stated: resolvers that share one cache but were built with different
\* options each return, for every request and in every order of calls, the
\* result they would return with a private cache.
C13_AsStated ==
    \A t \in Threads :
        Current(t) => calls[t].result = private_resolve(calls[t].o, calls[t].disk, calls[t].r)

\* the call thread t returned from was the first one after clear_entries, and
\* no other call began before it returned
FirstAfterClear(t) ==
    calls[t].pc = "done" /\ calls[t].first /\ calls[t].alone /\ calls[t].clears > 0

\* C14: after clear_entries returned with no resolve in flight the entry cache
\* is empty, and the next resolve returns what the filesystem as it is now
\* determines: stat, symlink and package info are computed again, no value
\* from before the clear is observed.
C14_ClearRecomputes ==
    /\ (hist.clears > 0 /\ hist.started = 0) => entries = NoEntries
    /\ \A t \in Threads :
          FirstAfterClear(t) => calls[t].result = private_resolve(calls[t].o, calls[t].disk, calls[t].r)

\* package.json was rewritten to name ./two.js as main while the cache held
\* the old descriptor, the cache was cleared, and '.' then resolved to two.js
C14_Witness ==
    /\ FirstAfterClear(1)
    /\ hist.stale
    /\ calls[1].disk.main = "./two.js"
    /\ calls[1].o = new(DefaultOptions) /\ calls[1].r = "."
    /\ calls[1].result.tag = "Ok" /\ calls[1].result.path = "/c/two.js"


\* no component of the path p is a symbolic link
NoLinkIn(p) == \A q \in Ancestors(p) \cup {p} : q \notin DOMAIN Symlinks

\* the request names a file by its relative path, and neither an alias nor a
\* browser field nor an extension stands between the request and that file
NamesFile ==
    /\ opt.alias = <<>> /\ ~opt.browser_field /\ opt.tsconfig = "" /\ opt.enforce_extension = "Disabled"
    /\ kind(Info(dir, parse(request))) = "Relative"
    /\ is_file(join(dir, parse(request).target))

\* C15: symlink handling.  With symlinks on, a successful resolve returns the
\* canonical path of the file it found, in which no component is a link,
\* wherever in the found path the link was; with symlinks off it returns the
\* found path with no component replaced, which for a request that names a
\* file is the referring directory joined with the request.
C15_Symlinks ==
    (phase = "done" /\ IsResource /\ ~opt.resolve_to_context) =>
        IF opt.symlinks
            THEN result.path = realpath(get_path(final.info)) /\ NoLinkIn(result.path)
            ELSE /\ result.path = get_path(final.info)
                 /\ NamesFile => result.path = join(dir, parse(request).target)

\* './linked/index.js', where /r/linked is a link to the directory /r/a,
\* resolved to /r/a/index.js
C15_Witness ==
    /\ phase = "done" /\ IsResource /\ opt.symlinks
    /\ request = "./linked/index.js"
    /\ get_path(final.info) = "/r/linked/index.js"
    /\ result.path = "/r/a/index.js"


\* the request of the first call names a builtin module, and the resolver's
\* tsconfig, if it has one, was loaded
BuiltinRequest ==
    /\ phase = "done" /\ ~IsSecondCall /\ TsConfigLoaded
    /\ kind(Info(dir, parse(request))) = "BuildInModule"

\* no entry of the alias map acts on the request
NoAliasActs == alias_next(parse(request).target, opt.alias, 1) = 0

\* C16 as stated: a request whose kind is BuiltinModule and that no alias
\* rewrites resolves to a resource whose path is the target string unchanged.
C16_AsStated ==
    (BuiltinRequest /\ NoAliasActs) => (IsResource /\ result.path = parse(request).target)

\* C16: a request whose kind is BuiltinModule and that no alias rewrites is
\* resolved as a module: a resource it returns is a file that the walk over
\* the node_modules directories found, never the target string itself, and
\* when the walk finds nothing resolve returns Err(ResolveFailed).
C16_BuiltinAsModule ==
    (BuiltinRequest /\ NoAliasActs) =>
        /\ result.tag = "Ok" => (~result.ignored /\ is_file(result.path) /\ contains(result.path, MODULE_DIR))
        /\ result.tag = "Err" => result.err = ResolveFailedTag

\* 'os' resolved to the file os.js of a node_modules directory
C16_Witness ==
    /\ BuiltinRequest /\ NoAliasActs
    /\ request = "os"
    /\ IsResource /\ result.path = "/r/node_modules/os.js"

\* some node_modules directory from dir upwards holds a file or a directory
\* with the name of the request
InNodeModules ==
    \E d \in Ancestors(dir) \cup {dir} :
        LET p == join(join(d, MODULE_DIR), parse(request).target)
        IN is_dir(p) \/ FirstFile(FileProbes(p, opt)) # ""

\* the file that the alias map names for the request: the replacement of the
\* first entry whose key is the requested name, "" when there is no such file
AliasedFile ==
    LET keyed == { i \in DOMAIN opt.alias : opt.alias[i][1] = parse(request).target }
        e == IF keyed = {} THEN 0 ELSE CHOOSE i \in keyed : \A j \in keyed : i <= j
    IN IF e = 0 \/ opt.alias[e][2].ignored THEN ""
       ELSE FirstFile(FileProbes(join(dir, opt.alias[e][2].to), opt))

\* C17: a builtin module name that no alias matches and that no node_modules
\* directory on the upward walk holds makes resolve return Err(ResolveFailed);
\* when an alias maps the name to a file, that file is what resolves.
C17_BuiltinFailsOrAlias ==
    /\ (BuiltinRequest /\ NoAliasActs /\ ~InNodeModules) => result = Err_(ResolveFailedTag)
    /\ (BuiltinRequest /\ ~opt.browser_field /\ AliasedFile # "") =>
          (IsResource /\ result.path = realpath(AliasedFile))

\* 'fs' failed to resolve without an alias
C17_Witness ==
    /\ BuiltinRequest /\ NoAliasActs /\ ~InNodeModules
    /\ request = "fs" /\ opt.alias = <<>>
    /\ result = Err_(ResolveFailedTag)


\* the path the request names
Named == join(dir, parse(request).target)

\* the first call has returned, for a relative request that is resolved by
\* the file and directory stages alone: no alias, browser field, tsconfig,
\* prefer_relative, resolve_to_context or fully_specified takes part, and the
\* description file of the named path, if there is one, can be read
PlainRelative ==
    /\ phase = "done" /\ ~IsSecondCall
    /\ opt.alias = <<>> /\ ~opt.browser_field /\ opt.tsconfig = "" /\ ~opt.prefer_relative
    /\ ~opt.resolve_to_context /\ ~opt.fully_specified
    /\ kind(Info(dir, parse(request))) = "Relative"
    /\ ~ends_with(parse(request).target, "/")
    /\ pkg_info(Named, opt.description_file).ok

\* the positions of the extensions in exts that, appended to the named path, give a file
Appended(exts) == { i \in DOMAIN exts : Named \o exts[i] \in Files }

\* the named path with the first extension of exts that gives a file
FirstAppended(exts) == Named \o exts[CHOOSE i \in Appended(exts) : \A j \in Appended(exts) : i <= j]

\* the path is not probed as it is written, or is no file
BareFails == opt.enforce_extension = "Enabled" \/ Named \notin Files

\* C18 as stated: the constructor strips the optional leading '.' of every
\* extension, so 'ts' and '.ts' behave identically: the file that probing
\* finds is the one that the extensions in their dotted form give.
C18_AsStated ==
    LET dotted == [i \in DOMAIN options.extensions |-> with_dot(options.extensions[i])]
    IN (PlainRelative /\ BareFails /\ Appended(dotted) # {}) =>
           (IsResource /\ get_path(final.info) = FirstAppended(dotted))

\* C18: the constructor leaves the extensions list as it was configured, and
\* probing appends each extension to the path as it is written: 'ts' makes
\* './a' probe 'ats', '.ts' makes it probe 'a.ts'; the file that probing finds
\* is the one that the first configured extension, appended as it is, gives.
C18_ExtensionsAsConfigured ==
    /\ opt.extensions = options.extensions
    /\ (PlainRelative /\ BareFails /\ Appended(options.extensions) # {}) =>
           (IsResource /\ get_path(final.info) = FirstAppended(options.extensions))

\* with the extensions ['ts', '.js'] the request './x' found x.js, though x.ts exists
C18_Witness ==
    /\ PlainRelative /\ BareFails
    /\ options.extensions = <<"ts", ".js">>
    /\ request = "./x" /\ "/r/x.ts" \in Files
    /\ IsResource /\ result.path = "/r/x.js"

\* the enforce_extension that the constructor computes for the configured options
Effective ==
    IF options.enforce_extension # "Auto" THEN options.enforce_extension
    ELSE IF \E i \in DOMAIN options.extensions : options.extensions[i] = "" THEN "Enabled"
    ELSE "Disabled"

\* C19: the constructed resolver's enforce_extension is never Auto: Auto
\* became Enabled iff the extensions hold the empty string and Disabled
\* otherwise, an explicit value is kept.  With Disabled a bare path that is a
\* file is the result, before any path+extension; with Enabled a file is
\* found only as path+extension for a configured extension.
C19_EnforceExtension ==
    /\ opt.enforce_extension = Effective
    /\ opt.enforce_extension \in {"Enabled", "Disabled"}
    /\ (PlainRelative /\ opt.enforce_extension = "Disabled" /\ Named \in Files) =>
           (IsResource /\ get_path(final.info) = Named)
    /\ (PlainRelative /\ opt.enforce_extension = "Enabled" /\ ~is_dir(Named)) =>
           IF Appended(opt.extensions) = {} THEN result = Err_(ResolveFailedTag)
           ELSE IsResource /\ \E i \in DOMAIN opt.extensions : get_path(final.info) = Named \o opt.extensions[i]

\* an explicit Disabled was kept although the extensions hold the empty
\* string, and './bare' found the file bare before bare.js
C19_Witness ==
    /\ PlainRelative
    /\ options.enforce_extension = "Disabled" /\ options.extensions = <<".js", "">>
    /\ opt.enforce_extension = "Disabled"
    /\ request = "./bare" /\ "/r/bare.js" \in Files
    /\ IsResource /\ result.path = "/r/bare"

\* the resolver has a tsconfig, and its path names no regular file
TsConfigMissing == opt.tsconfig # "" /\ opt.tsconfig \notin Files

\* C20: when options.tsconfig names no existing regular file, no stage of the
\* pipeline is entered and every resolve call returns Err(CantFindTsConfig),
\* whatever the request is.
C20_MissingTsConfig ==
    TsConfigMissing =>
        /\ phase \notin {"main", "fallback"}
        /\ expo = NoExpo
        /\ phase = "done" => result = Err_(Err("CantFindTsConfig", opt.tsconfig))

\* './x.js', a relative request whose file exists, returned CantFindTsConfig
C20_Witness ==
    /\ TsConfigMissing
    /\ phase = "done" /\ request = "./x.js" /\ "/r/x.js" \in Files
    /\ result = Err_(Err("CantFindTsConfig", "/r/nots.json"))

\* the set of key paths of a JSON value: the non-empty sequences of keys that lead
\* from the value to a member
RECURSIVE KeyPaths(_)
KeyPaths(j) ==
    IF j.t = "obj"
        THEN UNION { { <<k>> } \cup { <<k>> \o p : p \in KeyPaths(j.f[k]) } : k \in DOMAIN j.f }
        ELSE {}

\* the member of j at key path p (p \in KeyPaths(j))
RECURSIVE At(_, _)
At(j, p) == IF p = <<>> THEN j ELSE At(j.f[Head(p)], Tail(p))

\* the file a tsconfig extends, "" when it has no `extends` or the name is not that
\* of a tsconfig file beside it
ExtendedFile(location) ==
    LET s == extends_of(read_tsconfig(location))
        b == join(parent(location), s)
    IN IF s # "" /\ b \in DOMAIN TsConfigFiles /\ is_file(b) THEN b ELSE ""

\* the extends chain of a tsconfig file, the file itself first
RECURSIVE ExtendsChain(_)
ExtendsChain(location) ==
    IF ExtendedFile(location) = "" THEN << location >>
    ELSE << location >> \o ExtendsChain(ExtendedFile(location))

\* the nearest file of a chain that defines key path p, 0 when none does
RECURSIVE NearestDefining(_, _, _)
NearestDefining(chain, p, i) ==
    IF i > Len(chain) THEN 0
    ELSE IF p \in KeyPaths(read_tsconfig(chain[i])) THEN i
    ELSE NearestDefining(chain, p, i + 1)

\* the tsconfig of the resolver was parsed, extends included, by plain file lookup
\* (no alias and no browser field rewrites the extends request)
MergedLoaded ==
    /\ opt.tsconfig \in DOMAIN TsConfigFiles
    /\ opt.alias = <<>> /\ ~opt.browser_field
    /\ phase \in {"main", "fallback", "symlink", "done"}
    /\ prior = NoResult
    /\ tsret.tag = "Ok"

\* C21 as stated: in the merged JSON of a tsconfig a and the file b it extends,
\* every key path that a defines with a value keeps a's value, every key path of
\* the result comes from a file of the extends chain and carries the value of the
\* nearest file that defines it, and merging a JSON with itself changes nothing.
C21_AsStated ==
    MergedLoaded =>
        LET a == read_tsconfig(opt.tsconfig)
            m == tsret.json
            chain == ExtendsChain(opt.tsconfig)
        IN /\ \A p \in KeyPaths(a) : At(a, p).t # "obj" => p \in KeyPaths(m) /\ At(m, p) = At(a, p)
           /\ \A p \in KeyPaths(m) :
                /\ NearestDefining(chain, p, 1) # 0
                /\ At(m, p).t # "obj" =>
                     At(m, p) = At(read_tsconfig(chain[NearestDefining(chain, p, 1)]), p)
           /\ merge(a, a) = a /\ merge(m, m) = m

\* the directories among p and its ancestors that hold a description file
Describing(p) == { d \in {p} \cup Ancestors(p) : is_file(join(d, opt.description_file)) }

\* the nearest of them: the one that lies above no other
NearestDescribing(p) == { d \in Describing(p) : \A e \in Describing(p) : d \notin Ancestors(e) }

\* load_side_effects was called, and every description file on the way is
\* parsed: it is JSON, and PkgJSON::parse does not panic on it
SideLoaded ==
    /\ side # NoSide
    /\ \A d \in Describing(side.of) :
          /\ ~DescriptionFiles[join(d, opt.description_file)].bad
          /\ browser_asserts(DescriptionFiles[join(d, opt.description_file)].browser)

\* C22: load_side_effects(p) returns Some((d/description_file, sideEffects)) for
\* the nearest directory d among p and its ancestors that contains a description
\* file, sideEffects being that descriptor's field (Bool, Array, or None when
\* absent), and Ok(None) when neither p nor an ancestor has a description file.
C22_LoadSideEffects ==
    SideLoaded =>
        /\ side.tag = "Ok"
        /\ side.some <=> Describing(side.of) # {}
        /\ side.some =>
             \E d \in NearestDescribing(side.of) :
                /\ side.path = join(d, opt.description_file)
                /\ side.side_effects = DescriptionFiles[side.path].side_effects
        /\ ~side.some => side.path = "" /\ side.side_effects = NoSideEffects

\* the resource of '@s/n' has the descriptor of @s/n with an Array, a path in ef
\* a Bool, a path in plain no sideEffects, and '/' has no descriptor at all
C22_Witness ==
    /\ SideLoaded
    /\ \/ /\ request = "@s/n" /\ side.of = result.path
          /\ side.path = "/r/node_modules/@s/n/package.json" /\ side.side_effects.t = "Array"
       \/ /\ side.of = "/r/node_modules/ef/lib"
          /\ side.path = "/r/node_modules/ef/package.json" /\ side.side_effects = SideEffectsBool(FALSE)
       \/ /\ side.of = "/r/node_modules/plain/sub/index.js"
          /\ side.path = "/r/node_modules/plain/package.json" /\ side.side_effects.t = "None"
       \/ side.of = "/" /\ ~side.some

\* the description file of the nearest describing directory of p is not valid JSON
NearestIsBad(p) ==
    \E d \in NearestDescribing(p) : DescriptionFiles[join(d, opt.description_file)].bad

\* the description file of the nearest describing directory of p is JSON on
\* which PkgJSON::parse panics
NearestPanics(p) ==
    \E d \in NearestDescribing(p) : ~browser_asserts(DescriptionFiles[join(d, opt.description_file)].browser)

\* the description file that the lookup for p stops at
NearestFile(p) == CHOOSE f \in { join(d, opt.description_file) : d \in NearestDescribing(p) } : TRUE

\* the first call has returned, for a relative request that no alias rewrites, by a
\* resolver whose tsconfig, if it has one, was loaded
OwnLookup ==
    /\ phase = "done" /\ ~IsSecondCall /\ TsConfigLoaded
    /\ kind(Info(dir, parse(request))) = "Relative"
    /\ NoAliasActs

\* C23: the package-info lookup for a path walks towards the root: levels without
\* a description file are skipped, the first level with a valid descriptor is the
\* result, and when the nearest description file is malformed JSON the lookup
\* stops there - resolve returns Err(UnexpectedJson) with that file's path, and no
\* valid descriptor of an ancestor is used.  (A descriptor that PkgJSON::parse
\* panics on is not a case of this walk.)
C23_PkgInfoWalk ==
    /\ (side # NoSide /\ ~NearestPanics(side.of)) =>
          IF Describing(side.of) = {} THEN side.tag = "Ok" /\ ~side.some
          ELSE IF NearestIsBad(side.of)
             THEN side.tag = "Err" /\ side.err = Err("UnexpectedJson", NearestFile(side.of))
          ELSE side.tag = "Ok" /\ side.some /\ side.path = NearestFile(side.of)
    /\ (OwnLookup /\ NearestIsBad(Named)) =>
          result = Err_(Err("UnexpectedJson", NearestFile(Named)))

\* './bad/x.js' from /r: /r/bad/package.json is malformed and /r/package.json,
\* one level up, is valid; resolve returns the error of /r/bad/package.json, and
\* so does the lookup for the path itself
C23_Witness ==
    /\ OwnLookup /\ request = "./bad/x.js" /\ dir = "/r"
    /\ ~DescriptionFiles["/r/package.json"].bad
    /\ result = Err_(Err("UnexpectedJson", "/r/bad/package.json"))
    /\ side.of = "/r/bad/x.js" /\ side.err = Err("UnexpectedJson", "/r/bad/package.json")

\* the kinds in the order of the classification rules
KindOrder == << "Empty", "BuildInModule", "Internal", "AbsolutePosix", "Relative", "AbsoluteWin", "Normal" >>

\* character i of t, "" when t is shorter
CharOr(t, i) == IF i <= Len(t) THEN SubSeq(t, i, i) ELSE ""

\* rule i of the classification applies to t
RuleApplies(i, t) ==
    CASE i = 1 -> Len(t) = 0
      [] i = 2 -> t \in BUILT_IN_MODULE_SET
      [] i = 3 -> CharOr(t, 1) = "#"
      [] i = 4 -> CharOr(t, 1) = "/"
      [] i = 5 -> \/ t \in { ".", ".." }
                  \/ CharOr(t, 1) = "." /\ CharOr(t, 2) = "/"
                  \/ CharOr(t, 1) = "." /\ CharOr(t, 2) = "." /\ CharOr(t, 3) = "/"
      [] i = 6 -> /\ CharOr(t, 1) \in Letters /\ CharOr(t, 2) = ":"
                  /\ Len(t) = 2 \/ CharOr(t, 3) \in { "\\", "/" }
      [] OTHER -> TRUE

\* the first rule that applies
FirstRule(t) == CHOOSE i \in 1..7 : RuleApplies(i, t) /\ \A j \in 1..(i - 1) : ~RuleApplies(j, t)

\* C24: get_target_kind gives every target the kind of the first rule that
\* applies, in the order empty, builtin set, '#', '/', '.', '..', './', '../',
\* '<letter>:' alone or followed by '\' or '/', and Normal otherwise; 'C:path'
\* and 'cc:/a' are Normal.
C24_TargetKind ==
    /\ LET t == parse(request).target
       IN /\ get_target_kind(t) \in { KindOrder[i] : i \in 1..7 }
          /\ get_target_kind(t) = KindOrder[FirstRule(t)]
    /\ request \in { "C:path", "cc:/a" } => kind(Info(dir, parse(request))) = "Normal"

\* the call for 'C:path' has returned: the target was classified Normal and, with no
\* such module, the request failed
C24_Witness ==
    /\ phase = "done" /\ request = "C:path"
    /\ parse(request).target = "C:path"
    /\ get_target_kind("C:path") = "Normal"
    /\ result = Err_(ResolveFailedTag)

\* the activations that resolve their request against the exports of the enclosing package
SelfFrames == { i \in DOMAIN stack : stack[i].fn = "_resolve" /\ stack[i].stage = "exports" /\ stack[i].self }

\* C25 as stated: a bare request is resolved against the exports of the enclosing
\* package only when that package's name equals the package-name head of the
\* request (the first segment, or '@scope/name'); a request whose head merely
\* begins with the package name, like 'foobar/x' in package 'foo', is not a
\* self-reference.
C25_AsStated ==
    \A i \in SelfFrames :
        module_name(stack[i].info.target) = PkgAt(stack[i].pkg).json.name

\* the fallback stage stands at an entry it acts on
FallbackActs == stack # <<>> /\ stack[1].fn = "fallback" /\ stack[1].i > 0

\* C26 as stated: the fallback alias map is consulted only after the main pipeline
\* ended in Failed, and the rewriting then uses the entries of options.fallback,
\* never those of options.alias: with fallback './missing' -> './x.js' and no
\* alias, the failed request './missing' is resolved to /r/x.js, and an entry the
\* fallback stage acts on is an entry of options.fallback that matches the request.
C26_AsStated ==
    /\ FallbackActs =>
          /\ stack[1].i \in DOMAIN opt.fallback
          /\ alias_matches(stack[1].info.target, opt.fallback[stack[1].i][1])
    /\ ( /\ phase = "done" /\ ~IsSecondCall
         /\ opt.alias = <<>> /\ request = "./missing"
         /\ \E i \in DOMAIN opt.fallback : opt.fallback[i] = <<"./missing", Target("./x.js")>> )
       => (IsResource /\ result.path = "/r/x.js")

\* the position of a stage in the chain of _resolve (lib.rs 201-234); the file,
\* directory and module stages are the main dispatch
StageRank(stage) ==
    CASE stage = "enter" -> 0
      [] stage = "parse" -> 1
      [] stage = "alias" -> 2
      [] stage = "prefer" -> 3
      [] stage = "pkg" -> 4
      [] stage = "browser" -> 5
      [] stage \in { "main", "modules", "walk", "inpkg", "exports" } -> 6
      [] OTHER -> 7

\* the running activation is a _resolve whose chain has reached Success or Error
ChainFinished == stack # <<>> /\ Top.fn = "_resolve" /\ Top.st.tag \in { "Success", "Error" }

\* a step of the running _resolve activation that leaves it running
SameActivation == stack # <<>> /\ Len(stack') = Len(stack) /\ Top.fn = "_resolve" /\ Top'.fn = "_resolve"

\* C27: within one _resolve call the stages run in the order Parse, Alias,
\* PreferRelative, Imports, Browser, main dispatch, none is skipped or run again
\* after a later one; once a stage has yielded Success or Error no later stage
\* starts a sub-resolution or alters the state, and _resolve returns that state.
C27_StageOrder ==
    [][ /\ SameActivation =>
            /\ StageRank(Top'.stage) >= StageRank(Top.stage)
            /\ StageRank(Top'.stage) <= StageRank(Top.stage) + 1
        /\ ChainFinished =>
            /\ Len(stack') <= Len(stack)
            /\ Len(stack') = Len(stack) => Top'.st = Top.st
            /\ Len(stack') < Len(stack) => ret' = Top.st
            /\ UNCHANGED <<expo, ignoredHit, raised, depth>> \/ Len(stack') < Len(stack) ]_vars

\* an Ignored alias entry finished the chain at the alias stage and the activation
\* stands before the package-info stage, with Imports, Browser and the main
\* dispatch still to be passed
C27_Witness ==
    /\ stack # <<>> /\ Top.fn = "_resolve" /\ Top.stage = "pkg"
    /\ Top.st = SuccessIgnored
    /\ request = "./ig.js"

\* the lazy slots of an Entry
Slots == { "pkg_info", "stat", "symlink" }

\* a step leaves every initialised slot of every entry as it is
SlotsKept ==
    \A p \in DOMAIN entries \cap DOMAIN entries' :
        \A s \in Slots : entries[p][s].state = "set" => entries'[p][s] = entries[p][s]

\* the package info a thread goes on with is the value of the slot of the entry it asked
SlotObserved ==
    \A t \in Threads :
        calls[t].pc \in { "stat", "symlink" } => entries[calls[t].cur].pkg_info = SetCell(calls[t].pkg)

\* C28: each lazy slot of an Entry (stat, symlink target, package info) takes at
\* most one value while the entry lives: an initialised slot never changes, and
\* threads that race to initialise the same slot all go on with the one value
\* that was stored.
C28_OnceSlots == [][SlotsKept]_vars /\ []SlotObserved

\* thread 1 asks for the package info of an entry while thread 2, a resolver with
\* another description file, runs the initialiser of that slot
C28_Witness ==
    /\ calls[1].pc = "pkg" /\ calls[1].q \in DOMAIN entries
    /\ entries[calls[1].q].pkg_info = BusyCell(2, NoPkgInfo)
    /\ calls[1].o.description_file # calls[2].o.description_file
    /\ \E p \in DOMAIN entries : entries[p].stat.state = "set"

\* the '#' at position i of s begins a path segment and no query has begun before it
PathHash(s, i) ==
    /\ CharAt(s, i) = "#"
    /\ \A j \in 1..(i - 1) : CharAt(s, j) # "?"
    /\ i = 1 \/ (i > 2 /\ CharAt(s, i - 1) = "/" /\ CharAt(s, i - 2) # "/")

\* where the fragment of s starts: the first '#' that does not begin a path segment; 0 when none
FragmentStart(s) ==
    LET hs == { i \in 1..Len(s) : CharAt(s, i) = "#" /\ ~PathHash(s, i) }
    IN IF hs = {} THEN 0 ELSE CHOOSE i \in hs : \A j \in hs : i <= j

\* where the query of s starts: the last '?' before the fragment; 0 when none
QueryStart(s) ==
    LET f == FragmentStart(s)
        qs == { i \in 1..(IF f = 0 THEN Len(s) ELSE f - 1) : CharAt(s, i) = "?" }
    IN IF qs = {} THEN 0 ELSE CHOOSE i \in qs : \A j \in qs : j <= i

KeyMatch(t, k) ==
    \/ t = k
    \/ Len(t) > Len(k) /\ Take(t, Len(k)) = k /\ CharAt(t, Len(k) + 1) = "/"

\* a resolver without tsconfig and browser field called from /r
PlainCallFromR ==
    /\ phase = "done" /\ dir = "/r" /\ prior = NoResult
    /\ opt.tsconfig = "" /\ ~opt.browser_field /\ opt.fallback = <<>>

\* C30: an alias key k matches a request target t iff t = k or t starts with
\* k + '/'.  In every activation the entries that started a sub-resolution or
\* decided the alias stage have a key that matches in this sense, and every
\* entry before the deciding one whose key matches and whose replacement the
\* target does not already begin with has acted.  With the entry 'ignore' ->
\* Ignored the requests 'ignore' and 'ignore/a' are ignored, while 'ignored/a'
\* and 'ignore-a' resolve as without the entry: the first fails, the second is
\* the package node_modules/ignore-a.
C30_AliasKeyMatch ==
    /\ \A n \in DOMAIN stack :
          stack[n].fn = "_resolve" =>
             LET f == stack[n]
                 upto == IF f.by = 0 THEN Len(opt.alias) ELSE f.by - 1
             IN /\ \A e \in f.unfinished \cup (IF f.by = 0 THEN {} ELSE {f.by}) :
                      KeyMatch(f.info.target, opt.alias[e][1])
                /\ PastAlias(f) =>
                      \A e \in 1..upto :
                         (/\ KeyMatch(f.info.target, opt.alias[e][1])
                          /\ opt.alias[e][2].ignored \/ ~starts_with(f.info.target, opt.alias[e][2].to))
                            => e \in f.unfinished
    /\ (PlainCallFromR /\ opt.alias \in {AliasTest, <<>>}) =>
          /\ request = "ignored/a" => result = Err_(ResolveFailedTag) /\ ignoredHit.by = ""
          /\ request = "ignore-a" =>
                /\ IsResource /\ result.path = "/r/node_modules/ignore-a/index.js"
                /\ ignoredHit.by = ""
          /\ (request \in {"ignore", "ignore/a"} /\ opt.alias = AliasTest) => result = Ok_Ignored
          /\ (request \in {"ignore", "ignore/a"} /\ opt.alias = <<>>) => result = Err_(ResolveFailedTag)

\* under the map with 'ignore' -> Ignored the request 'ignore-a' is the
\* package ignore-a, and no entry was taken for it
C30_Witness ==
    /\ PlainCallFromR /\ opt.alias = AliasTest /\ request = "ignore-a"
    /\ IsResource /\ result.path = "/r/node_modules/ignore-a/index.js"
    /\ ignoredHit.by = ""

\* t begins with p
Begins(t, p) == Len(t) >= Len(p) /\ Take(t, Len(p)) = p

\* activation n is at its alias stage and waits for the sub-resolution of entry i
AliasCalls(n) ==
    /\ n < Len(stack)
    /\ stack[n].fn = "_resolve" /\ stack[n].stage = "alias" /\ stack[n].i # 0
    /\ stack[n + 1].fn = "_resolve" /\ stack[n + 1].stage = "enter"

\* C31: alias cycle guard.  An entry Target(to) whose key matches is skipped,
\* without a sub-resolution, exactly when the target begins with `to` (the
\* rewritten target, which begins with `to` by construction, then still does);
\* an entry that is not skipped starts a sub-resolution whose target is the
\* old target with the first occurrence of the key, its head, replaced by
\* `to`.  The self-mapping './c' -> './c' starts no sub-resolution and the
\* request './c' resolves to the directory's index file.
C31_AliasCycleGuard ==
    /\ \A n \in DOMAIN stack :
          stack[n].fn = "_resolve" =>
             LET f == stack[n]
                 t == f.info.target
                 upto == IF f.by = 0 THEN Len(opt.alias) ELSE f.by - 1
                 to(e) == opt.alias[e][2].to
                 taken == f.unfinished \cup (IF f.by = 0 THEN {} ELSE {f.by})
                         \cup (IF f.stage = "alias" /\ f.i # 0 THEN {f.i} ELSE {})
             IN /\ \A e \in taken :
                      opt.alias[e][2].ignored \/ ~Begins(t, to(e))
                /\ PastAlias(f) =>
                      \A e \in 1..upto :
                         (/\ KeyMatch(t, opt.alias[e][1])
                          /\ ~opt.alias[e][2].ignored
                          /\ ~Begins(t, to(e))) => e \in f.unfinished
                /\ AliasCalls(n) =>
                      /\ stack[n + 1].info.target = to(f.i) \o Drop(t, Len(opt.alias[f.i][1]))
                      /\ Begins(stack[n + 1].info.target, to(f.i))
    /\ (PlainCallFromR /\ opt.alias = AliasTest /\ request = "./c") =>
          /\ IsResource /\ result.path = "/r/c/index.js"

\* the sub-resolution of 'aliasA/aliasA' under 'aliasA' -> './a' is entered
\* with the target './a/aliasA'
C31_Witness ==
    /\ Len(stack) >= 2 /\ AliasCalls(1)
    /\ stack[1].info.target = "aliasA/aliasA"
    /\ stack[2].info.target = "./a/aliasA"

\* the request './c' under the self-mapping './c' -> './c' has returned the
\* index file of /r/c
C31_SelfMapping ==
    /\ PlainCallFromR /\ opt.alias = AliasTest /\ request = "./c"
    /\ IsResource /\ result.path = "/r/c/index.js"

\* the packages /r/bs and /r/bn have the same files and the same browser
\* field, but for the self-mappings 'selfm': 'selfm' and './y': './y' that
\* come first in /r/bs
SelfMapDirs == { "/r/bs", "/r/bn" }

\* C32 as stated: a browser mapping whose key equals its target is a no-op,
\* and the entries after it are treated as if it were absent: the requests
\* 'selfm', './y' and './y.js' have in /r/bs the results they have in /r/bn,
\* where './y' and './y.js' meet the entry './y.js': false.
C32_AsStated ==
    (/\ phase = "done" /\ prior = NoResult /\ opt.browser_field
     /\ opt.alias = <<>> /\ opt.tsconfig = "" /\ dir \in SelfMapDirs) =>
        /\ request = "selfm" =>
              IsResource /\ result.path = dir \o "/node_modules/selfm/index.js"
        /\ request \in {"./y", "./y.js"} => result = Ok_Ignored

\* the top activation is in the candidate loop of its exports stage: the lookup
\* has returned a list, or is about to
InExportsLoop ==
    /\ stack # <<>> /\ Top.fn = "_resolve" /\ Top.stage = "exports"
    /\ Top.st.tag = "Resolving"
    /\ phase # "aborted"

\* candidate k of the list stays inside the package
Admitted(list, k) ==
    LET t == parse(list[k]).target
    IN Begins(t, "./") /\ ~contains(t, "/../") /\ ~ends_with(t, "/..")

\* the state a candidate's sub-resolution came back with lets the loop go on:
\* it failed, or it names something that is not a regular file
PassedOver(state) ==
    \/ state.tag # "Success"
    \/ ~state.ignored /\ get_path(state.info) \notin Files

\* one step of the candidate loop, from activation f with the returned state r
\* to the stack s2
CandidateStep(f, r, s2) ==
    LET n == Len(stack)
        g == s2[n]
        back == r # NoState
    IN \/ \* the next candidate is handed to _resolve
          /\ Len(s2) = n + 1
          /\ g.stage = "exports" /\ g.i > f.i
          /\ back => (g.list = f.list /\ PassedOver(r))
          /\ \A k \in (f.i + 1)..(g.i - 1) : ~Admitted(g.list, k)
          /\ Admitted(g.list, g.i)
          /\ s2[n + 1].info.target = parse(g.list[g.i]).target
       \/ \* the stage ends with the file of the candidate that came back
          /\ Len(s2) = n /\ g.stage # "exports"
          /\ g.st.tag = "Success" /\ ~g.st.ignored
          /\ back /\ r.tag = "Success" /\ ~r.ignored
          /\ get_path(r.info) \in Files /\ g.st.info = r.info
       \/ \* the stage ends with Ignored, which the candidate that came back resolved to
          /\ Len(s2) = n /\ g.stage # "exports"
          /\ g.st = SuccessIgnored
          /\ back /\ r = SuccessIgnored
       \/ \* the loop ran out
          /\ Len(s2) = n /\ g.stage # "exports"
          /\ g.st.tag = "Error"
          /\ back => (PassedOver(r) /\ \A k \in (f.i + 1)..Len(f.list) : ~Admitted(f.list, k))
       \/ \* the stage did not come to a list
          /\ Len(s2) = n /\ g.stage # "exports"
          /\ ~back /\ g.st.tag \in {"Resolving", "Failed"}

\* C33: exports candidates are attempted in the order of the lookup's list, and
\* the stage succeeds with the first candidate whose sub-resolution succeeds
\* with a regular file.  Every step of the loop either hands the next
\* candidate that check_target admits to _resolve, after a candidate that
\* failed or resolved to something that is not a file, or ends the stage: with
\* the file of the candidate that just came back, with Success(Ignored) when
\* that candidate resolved to Ignored, or with the error of an exhausted list.
C33_CandidateOrder ==
    [][(InExportsLoop /\ phase' # "aborted") => CandidateStep(Top, ret, stack')]_vars

\* 'ef/multi' has the candidates './missing.js', 'plain' and './x.js': the
\* first came back Failed, the second is not admitted, the third is being resolved
C33_Witness ==
    /\ Len(stack) >= 2 /\ phase = "main"
    /\ stack[1].stage = "exports" /\ stack[1].i = 3
    /\ stack[1].list = << "./missing.js", "plain", "./x.js" >>
    /\ stack[2].info.target = "./x.js"

\* the directories among p and its ancestors where something lies under the
\* name of the description file, whether it can be read or not
Candidates(p) == { d \in {p} \cup Ancestors(p) : exists(join(d, opt.description_file)) }

\* the nearest of them is there but cannot be read as a file
NearestUnreadable(p) ==
    \E d \in Candidates(p) :
       /\ \A e \in Candidates(p) : d \notin Ancestors(e)
       /\ ~is_file(join(d, opt.description_file))

\* C34 as stated: while the package-info lookup reads description files, only
\* 'not found' is skipped; when the nearest thing under the description file's
\* name cannot be read (it is a directory), the lookup does not go on with the
\* parent: load_side_effects and resolve return Err(Io).
C34_AsStated ==
    /\ (side # NoSide /\ NearestUnreadable(side.of)) =>
          side.tag = "Err" /\ side.err.kind = "Io"
    /\ (OwnLookup /\ opt.tsconfig = "" /\ NearestUnreadable(join(dir, parse(request).target))) =>
          result.tag = "Err" /\ result.err.kind = "Io"

\* the step returns from the top activation of _resolve to its caller
Returns ==
    /\ stack # <<>> /\ Top.fn = "_resolve"
    /\ Len(stack') = Len(stack) - 1
    /\ phase' # "aborted"

\* the depth counter at the entry of the top activation of _resolve
DepthAtEntry == IF Top.stage = "enter" THEN depth ELSE Top.d0

\* C35 as stated: depth accounting is balanced.  Whenever a call of _resolve
\* returns, with whatever state, Error(Overflow) included, the depth counter
\* has the value it had when the call was entered.
C35_AsStated ==
    [][Returns => depth' = DepthAtEntry]_vars

\* C36 as stated: PkgJSON::parse is total.  No description file makes a call
\* abort: neither resolve nor load_side_effects ends in the panic of the
\* assertion that PkgJSON::parse makes on the booleans of a `browser` object.
C36_AsStated ==
    /\ ~(phase = "aborted" /\ result.err = Panic)
    /\ side.tag # "Panic"

\* C37 as stated: ExportsFieldPlugin::apply never aborts on a Normal-kind
\* target.  For a target that begins with '@' and holds no '/', looked up
\* where the package at hand lies under node_modules or is referred to by its
\* own name and has an exports field, the stage returns a State: no call ends
\* in the panic of an unwrap of the missing '/' position.
C37_AsStated ==
    ~(phase = "aborted" /\ result.err = UnwrapNone)

\* the entries that the cache holds now
Cached == { table[p] : p \in DOMAIN table }

\* C38 as stated: under every interleaving of load_entry calls with
\* clear_entries, at most one Entry is inserted per normalized path per cache
\* generation, the parent handle of every cached entry is the entry currently
\* cached under its parent path, and no entry inserted after a clear links to
\* a parent created before that clear.
C38_AsStated ==
    /\ \A i, j \in DOMAIN arena :
          (arena[i].path = arena[j].path /\ arena[i].gen = arena[j].gen) => i = j
    /\ \A p \in DOMAIN table :
          parent(p) # "" =>
             /\ parent(p) \in DOMAIN table
             /\ arena[table[p]].parent = table[parent(p)]
    /\ \A i \in DOMAIN arena :
          arena[i].parent # 0 => arena[arena[i].parent].gen = arena[i].gen

\* C39 as stated: resolve terminates for every request, filesystem and
\* configuration, every recursion being bounded by the depth limit: no call
\* uses up the call stack, and the activations of parse_file_to_value that are
\* nested in one another parse different files, a cyclic `extends` chain
\* included.
C39_AsStated ==
    /\ ~(phase = "aborted" /\ result.err = StackExhausted)
    /\ \A i, j \in ParseFrames(stack) :
          stack[i].info.path = stack[j].info.path => i = j

\* thread t takes a step
Steps(t) == loads'[t] # loads[t]

\* the entry whose get_or_try_init ends next on thread t
Leaving(t) == loads[t].held[Len(loads[t].held)]

\* C40: Entry.pkg_info caches only successful lookups.  When the lookup fails
\* with UnexpectedJson or UnexpectedValue, the package-info slot of the entry
\* and of each descendant the lookup came through is left uninitialized; no
\* slot ever holds an error; an error that pkg_info returns comes from a
\* description file read in that call; and a later call on an entry whose
\* lookup failed, the slot still being uninitialized, reads the description
\* file again.
C40_FailuresNotCached ==
    [][/\ \A i \in DOMAIN arena' : arena'[i].pkg_info.state = "set" => arena'[i].pkg_info.v.ok
       /\ \A t \in Threads :
             /\ (loads[t].pc = "back" /\ loads[t].held # <<>> /\ ~loads[t].out.ok /\ Steps(t))
                   => arena'[Leaving(t)].pkg_info = Entry_new.pkg_info
             /\ (loads[t].pc = "back" /\ loads'[t].pc = "idle" /\ ~loads[t].out.ok) => loads[t].read
             /\ (/\ loads[t].pc = "pkg" /\ Steps(t)
                 /\ arena[loads[t].q].failed /\ arena[loads[t].q].pkg_info.state = "unset"
                 /\ stat(disk, arena[loads[t].q].path) = "dir")
                   => loads'[t].read]_vars

\* the lookup for /c/lib failed on /c/package.json, which is not JSON; the file
\* was rewritten, and a later lookup on the same entry of /c/lib set its slot
\* to the descriptor of /c
C40_Witness ==
    \E i \in DOMAIN arena :
       /\ arena[i].path = "/c/lib" /\ arena[i].failed
       /\ arena[i].pkg_info.state = "set" /\ arena[i].pkg_info.v.dir_path = "/c"
       /\ \E t \in Threads : loads[t].pc = "idle" /\ loads[t].got = i /\ loads[t].out = arena[i].pkg_info.v

====
